---- MODULE Spec2Model ----
(***************************************************************************)
(* A model of the PDF document assembler (PdfGen) and the page content     *)
(* builder (PdfPage).  The output file is a sequence of chunks, one per    *)
(* write_bytes call, each with the byte offset it starts at and its byte   *)
(* length; a write may fail (short write), which raises an exception that  *)
(* unwinds the operation that made it.                                     *)
(***************************************************************************)
EXTENDS Integers, Sequences, FiniteSets, TLC

(* ------------------------------ bounds --------------------------------- *)
\* page builders created during one run
MaxBuilders == 2
\* operations called on one page builder
MaxOps == 2
\* entries in each resource registry: images, separations, loaded fonts
MaxResources == 1
\* explicit finalize calls on one page builder
MaxFinalizeCalls == 2
\* write failures injected during one run
MaxIOFailures == 1
\* entries in a builder's graphics-state list
MaxGstates == 1

Builders == 1..MaxBuilders

(* ------------------- 64-bit file offsets, two limbs -------------------- *)
\* an int64 offset v is [hi, lo] with v = hi * Limb + lo and 0 <= lo < Limb
Limb == 10^9
Off(n) == [hi |-> 0, lo |-> n]
OffAdd(a, b) ==
    LET s == a.lo + b.lo
    IN  [hi |-> a.hi + b.hi + (s \div Limb), lo |-> s % Limb]
OffLess(a, b) == a.hi < b.hi \/ (a.hi = b.hi /\ a.lo < b.lo)

RECURSIVE Digits(_)
\* number of decimal digits "{}" / "%d" prints for a non-negative integer
Digits(n) == IF n < 10 THEN 1 ELSE 1 + Digits(n \div 10)
OffDigits(a) == IF a.hi = 0 THEN Digits(a.lo) ELSE 9 + Digits(a.hi)
Max(a, b) == IF a >= b THEN a ELSE b

(* ---------------------- resource names and tokens ---------------------- *)
NoRes == [t |-> "none", n |-> 0, s |-> 0]
ResName(t, n, s) == [t |-> t, n |-> n, s |-> s]
\* one content-stream token: the operator, the resource name it references
\* (NoRes when none), its operand bytes and its length in bytes
Tok(op, res, txt, len) == [op |-> op, res |-> res, txt |-> txt, len |-> len]

RECURSIVE SumLen(_)
SumLen(toks) == IF toks = <<>> THEN 0 ELSE Head(toks).len + SumLen(Tail(toks))

NoBody == [type |-> "none"]

(* ----------------------------- the state ------------------------------- *)
VARIABLES
    gen_state,          \* "unborn", "ctor_failed", "alive", "destroyed"
    ofile,              \* FILE *ofile: "null", "open", "closed"
    file,               \* the bytes of the output file, as a sequence of chunks
    fpos,               \* the file position ftell(ofile) reports
    opts,               \* PdfGenerationData
    object_offsets,     \* std::vector<int64_t>
    pages,              \* std::vector<PageOffsets>
    image_info,         \* std::vector<ImageInfo>
    builtin_fonts,      \* std::unordered_map<BuiltinFonts, FontId>
    font_objects,       \* font registry, indexed by FontId
    separation_objects, \* std::vector<int32_t>
    page,               \* the page builders
    io,                 \* bookkeeping of write failures
    log                 \* what the destructors and the callers observed

vars == <<gen_state, ofile, file, fpos, opts, object_offsets, pages, image_info,
          builtin_fonts, font_objects, separation_objects, page, io, log>>

genvars == <<gen_state, ofile, file, fpos, opts, object_offsets, pages, image_info,
             builtin_fonts, font_objects, separation_objects>>

(* ------------------------- the write engine ---------------------------- *)
\* The state threaded through the writes of one operation.  failAt = k > 0
\* makes the k-th write_bytes call of the operation fail: a short write, of
\* which the chunk keeps the place and that it is incomplete.  Once failed,
\* every later call of the operation is skipped: the exception is propagating.
Engine(failAt) ==
    [file |-> file, pos |-> fpos, offs |-> object_offsets, nw |-> 0,
     failAt |-> failAt, err |-> "none",
     ever |-> io.write_failed, late |-> io.late_write, ret |-> 0]

\* an exception is propagating
Failed(S) == S.err # "none"
Throw(S, what) == IF Failed(S) THEN S ELSE [S EXCEPT !.err = what]

Chunk(kind, num, off, len, full, body) ==
    [kind |-> kind, num |-> num, off |-> off, len |-> len, full |-> full, body |-> body]

write_bytes(S, kind, num, len, body) ==
    IF Failed(S) THEN S
    ELSE LET n == S.nw + 1
             late == S.late \/ S.ever
         IN  IF n = S.failAt
             THEN [S EXCEPT !.nw = n, !.err = "io", !.ever = TRUE, !.late = late,
                            !.file = Append(@, Chunk(kind, num, S.pos, Off(0), FALSE, body))]
             ELSE [S EXCEPT !.nw = n, !.late = late,
                            !.file = Append(@, Chunk(kind, num, S.pos, len, TRUE, body)),
                            !.pos = OffAdd(@, len)]

\* object_offsets.push_back(ftell(ofile))
push_offset(S) == [S EXCEPT !.offs = Append(@, S.pos)]
\* the value a call returns to its caller
returning(S, value) == [S EXCEPT !.ret = value]

\* PdfGen::add_object: the offset is recorded first, then the header, the data
\* and the "endobj" line are written
add_object(S, body, len) ==
    IF Failed(S) THEN S
    ELSE returning(
           write_bytes(
             write_bytes(
               write_bytes(push_offset(S), "objhdr", Len(S.offs) + 1,
                           Off(Digits(Len(S.offs) + 1) + 7), NoBody),
               "objdata", Len(S.offs) + 1, len, body),
             "endobj", Len(S.offs) + 1, Off(7), NoBody),
           Len(S.offs) + 1)

\* the choices of a failure point for an operation making at most n writes
FailPoints(n) == IF io.faults > 0 THEN 0..n ELSE {0}

\* the engine's result stored back into the state
Commit(S) ==
    /\ file' = S.file
    /\ fpos' = S.pos
    /\ object_offsets' = S.offs
    /\ io' = [write_failed |-> S.ever, late_write |-> S.late,
              faults |-> io.faults - (IF S.err = "io" THEN 1 ELSE 0)]

(* ------------------------- PdfGen: open -------------------------------- *)
ColorSpaces == {"PDF_DEVICE_RGB", "PDF_DEVICE_GRAY", "PDF_DEVICE_CMYK"}
\* the options of the driver programs: output colour space, and the lengths of
\* the title and author strings
Options ==
    {[output_colorspace |-> "PDF_DEVICE_RGB", title |-> Len("Font layout test"), author |-> 0],
     [output_colorspace |-> "PDF_DEVICE_GRAY", title |-> 0, author |-> 0],
     [output_colorspace |-> "PDF_DEVICE_CMYK", title |-> Len("Book cover generation experiment"),
      author |-> Len("G. R. Aphicdesigner")]}
\* the characters of the four MediaBox numbers "0 0 400 100" as "{}" prints them
MediaBoxChars == Len("0") + Len("0") + Len("400") + Len("100")

PDF_header == [len |-> Len("%PDF-1.7") + 1 + 4 + 1]

write_header(S) == write_bytes(S, "pdfheader", 0, Off(PDF_header.len), NoBody)

write_info(S) ==
    LET len == Len("<<") + 1
               + (IF opts.title # 0 THEN Len("  /Title (") + opts.title + Len(")") + 1 ELSE 0)
               + (IF opts.author # 0 THEN Len("  /Author (") + opts.author + Len(")") + 1 ELSE 0)
               + Len("  /Producer (PDF Testbed generator)") + 1 + Len(">>") + 1
    IN  add_object(S, [type |-> "Info"], Off(len))

NoCall == [op |-> "none", b |-> 0, err |-> "none"]
Call(op, b, err) == [op |-> op, b |-> b, err |-> err]

\* PdfGen::PdfGen: fopen, then the header and the info dictionary.  A throwing
\* constructor leaves no object behind, so no destructor will run.
PdfGen_ctor ==
    /\ gen_state = "unborn"
    /\ \E fopen_ok \in BOOLEAN, failAt \in FailPoints(4) :
         IF ~fopen_ok
         THEN /\ gen_state' = "ctor_failed"
              /\ log' = [log EXCEPT !.last = Call("PdfGen", 0, "fopen")]
              /\ UNCHANGED <<ofile, file, fpos, object_offsets, io>>
         ELSE \E S \in {write_info(write_header(Engine(failAt)))} :
                  /\ ofile' = "open"
                  /\ gen_state' = IF Failed(S) THEN "ctor_failed" ELSE "alive"
                  /\ log' = [log EXCEPT !.last = Call("PdfGen", 0, S.err)]
                  /\ Commit(S)
    /\ UNCHANGED <<opts, pages, image_info, builtin_fonts, font_objects,
                   separation_objects, page>>

(* ------------------------- PdfGen: close ------------------------------- *)
PageBody(parent, contents, resources) ==
    [type |-> "Page", Parent |-> parent, Contents |-> contents, Resources |-> resources]
PageBodyLen(parent, contents, resources) ==
    90 + Digits(parent) + MediaBoxChars + Digits(contents) + Digits(resources)

\* a variant for comparison: each page object is put in front of the list
page_object_inserted_first(page_objects, S1) ==
    [S |-> S1,
     page_objects |-> IF Failed(S1) THEN page_objects ELSE <<S1.ret>> \o page_objects]

\* page_objects.push_back(add_object(buf)); S1 is the engine after add_object
page_object_pushed(page_objects, S1) ==
    [S |-> S1,
     page_objects |-> IF Failed(S1) THEN page_objects ELSE Append(page_objects, S1.ret)]

RECURSIVE WritePageObjects(_, _, _, _)
\* the loop of write_pages over the page records ps; R = [S, page_objects]
WritePageObjects(R, ps, i, pages_obj_num) ==
    IF i > Len(ps) \/ Failed(R.S) THEN R
    ELSE WritePageObjects(
           page_object_pushed(
             R.page_objects,
             add_object(R.S,
                        PageBody(pages_obj_num, ps[i].commands_obj_num, ps[i].resource_obj_num),
                        Off(PageBodyLen(pages_obj_num, ps[i].commands_obj_num,
                                        ps[i].resource_obj_num)))),
           ps, i + 1, pages_obj_num)

RECURSIVE KidsLen(_)
KidsLen(kids) ==
    IF kids = <<>> THEN 0
    ELSE Len("    ") + Digits(Head(kids)) + Len(" 0 R") + 1 + KidsLen(Tail(kids))

\* the check that ends write_pages; S2 is the engine after the page tree object
check_pages_obj_num(S2, pages_obj_num) ==
    IF ~Failed(S2) /\ S2.ret # pages_obj_num
    THEN Throw(S2, "Buggy McBugFace!")
    ELSE S2

\* the page tree object of write_pages, written after the loop left R
write_page_tree(R, pages_obj_num) ==
    check_pages_obj_num(
      add_object(R.S,
                 [type |-> "Pages", Kids |-> R.page_objects, Count |-> Len(R.page_objects)],
                 Off(28 + KidsLen(R.page_objects) + 17 + Digits(Len(R.page_objects)))),
      pages_obj_num)

\* a variant for comparison: the page tree's own object is not counted
write_pages_without_root(S) ==
    IF Failed(S) THEN S
    ELSE write_page_tree(
           WritePageObjects([S |-> S, page_objects |-> <<>>], pages, 1,
                            Len(S.offs) + Len(pages)),
           Len(S.offs) + Len(pages))

\* a variant for comparison: the objects written before are not counted
write_pages_from_empty_file(S) ==
    IF Failed(S) THEN S
    ELSE write_page_tree(
           WritePageObjects([S |-> S, page_objects |-> <<>>], pages, 1, Len(pages) + 1),
           Len(pages) + 1)

write_pages(S) ==
    IF Failed(S) THEN S
    ELSE write_page_tree(
           WritePageObjects([S |-> S, page_objects |-> <<>>], pages, 1,
                            Len(S.offs) + Len(pages) + 1),
           Len(S.offs) + Len(pages) + 1)

write_catalog(S) ==
    IF Failed(S) THEN S
    ELSE LET pages_obj_num == Len(S.offs)
         IN  add_object(S, [type |-> "Catalog", Pages |-> pages_obj_num],
                        Off(37 + Digits(pages_obj_num)))

\* one in-use entry "{:010} 00000 n \n": the offset is padded to AT LEAST 10 digits
XrefEntry(off) ==
    [kind |-> "n", off |-> off, gen |-> 0,
     len |-> Max(10, OffDigits(off)) + Len(" 00000 n ") + 1]
XrefFree == [kind |-> "f", off |-> Off(0), gen |-> 65535,
             len |-> Len("0000000000 65535 f") + Len(" ") + 1]

\* a variant for comparison: the free entry is written after the objects
write_cross_reference_table_head_last(S) ==
    IF Failed(S) THEN S
    ELSE LET entries == [i \in 1..Len(S.offs) |-> XrefEntry(S.offs[i])] \o <<XrefFree>>
             N == Len(S.offs) + 1
             len == Len("xref") + 1 + Len("0 ") + Digits(N) + 1 + SumLen(entries)
         IN  write_bytes(S, "xref", 0, Off(len),
                         [type |-> "xref", N |-> N, entries |-> entries])

\* the table "xref\n0 N\n", the free entry, then one entry per recorded offset
write_cross_reference_table(S) ==
    IF Failed(S) THEN S
    ELSE LET entries == <<XrefFree>> \o [i \in 1..Len(S.offs) |-> XrefEntry(S.offs[i])]
             N == Len(S.offs) + 1
             len == Len("xref") + 1 + Len("0 ") + Digits(N) + 1 + SumLen(entries)
         IN  write_bytes(S, "xref", 0, Off(len),
                         [type |-> "xref", N |-> N, entries |-> entries])

write_trailer(S, xref_offset) ==
    IF Failed(S) THEN S
    ELSE LET info == 1
             root == Len(S.offs)
             size == Len(S.offs) + 1
             len == 66 + Digits(size) + Digits(root) + Digits(info) + OffDigits(xref_offset)
         IN  write_bytes(S, "trailer", 0, Off(len),
                         [type |-> "trailer", Size |-> size, Root |-> root, Info |-> info,
                          startxref |-> xref_offset])

\* a variant for comparison: the offset is sampled after the table was written
write_table_then_sample(S1) ==
    write_trailer(write_cross_reference_table(S1), write_cross_reference_table(S1).pos)

\* the end of close_file: xref_offset = ftell(ofile) is taken before the table
\* is written and handed to the trailer
write_table_and_trailer(S1) == write_trailer(write_cross_reference_table(S1), S1.pos)

\* a variant for comparison: the catalog is written before the pages
close_file_catalog_first(S) == write_table_and_trailer(write_pages(write_catalog(S)))

close_file(S) == write_table_and_trailer(write_catalog(write_pages(S)))

\* the most writes close_file can make: three per object, the table, the trailer
CloseWrites == 3 * (MaxBuilders + 2) + 2

\* a variant for comparison: the catch block returns without fclose
dtor_epilogue_no_fclose(S, fflush_ok) ==
    IF Failed(S)
    THEN [stderr |-> {S.err}, fcloses |-> 0, escaped |-> FALSE]
    ELSE [stderr |-> IF fflush_ok THEN {} ELSE {"fflush"}, fcloses |-> 1, escaped |-> FALSE]

\* what ~PdfGen does around close_file: on an exception it logs, closes the
\* file and returns; otherwise it flushes and closes
dtor_epilogue(S, fflush_ok) ==
    IF Failed(S)
    THEN [stderr |-> {S.err}, fcloses |-> 1, escaped |-> FALSE]
    ELSE [stderr |-> IF fflush_ok THEN {} ELSE {"fflush"}, fcloses |-> 1, escaped |-> FALSE]

\* PdfGen::~PdfGen
PdfGen_dtor ==
    /\ gen_state = "alive"
    /\ \A b \in Builders : page[b].state # "live"
    /\ \E failAt \in FailPoints(CloseWrites), fflush_ok \in BOOLEAN :
         \E S \in {close_file(Engine(failAt))} : \E E \in {dtor_epilogue(S, fflush_ok)} :
             /\ Commit(S)
             /\ ofile' = IF E.fcloses > 0 THEN "closed" ELSE ofile
             /\ log' = [log EXCEPT
                          !.last = Call("~PdfGen", 0, "none"),
                          !.close_runs = @ + 1,
                          !.close_err = S.err,
                          !.fclose_calls = @ + E.fcloses,
                          !.escaped = @ \/ E.escaped,
                          !.stderr = @ \cup E.stderr]
    /\ gen_state' = "destroyed"
    /\ UNCHANGED <<opts, pages, image_info, builtin_fonts, font_objects,
                   separation_objects, page>>

(* ------------------------- PdfGen: resources --------------------------- *)
\* the compressed sizes of the pixel data an image file may have
ImageSizes == {Off(12), [hi |-> 10, lo |-> 0]}
ImageDim == [w |-> 2, h |-> 2]

\* PdfGen::load_image: the soft mask first when the image has an alpha plane
ImageDimChars == Digits(ImageDim.w) + Digits(ImageDim.h)

\* the soft mask object load_image writes for the alpha plane
smask_object(S, csize) ==
    add_object(S, [type |-> "Image", smask |-> 0, mask |-> TRUE],
               OffAdd(Off(151 + ImageDimChars + OffDigits(csize) + 11), csize))

\* the image object itself, with "/SMask n 0 R" when smask_id >= 0
image_object(S, smask_id, csize) ==
    add_object(S, [type |-> "Image", smask |-> smask_id, mask |-> FALSE],
               OffAdd(Off(140 + ImageDimChars + OffDigits(csize)
                          + (IF smask_id >= 0 THEN 12 + Digits(smask_id) ELSE 0) + 10 + 11),
                      csize))

\* a variant for comparison: the soft mask's number is not handed on
image_after_unused_smask(S1, csize) == image_object(S1, -1, csize)

\* the image object written after the soft mask, whose number S1 returned
image_after_smask(S1, csize) == image_object(S1, S1.ret, csize)

load_image_objects(S, alpha, csize) ==
    IF alpha THEN image_after_smask(smask_object(S, csize), csize)
    ELSE image_object(S, -1, csize)

load_image(alphas, csizes) ==
    /\ gen_state = "alive"
    /\ Len(image_info) < MaxResources
    /\ \E readable \in BOOLEAN, alpha \in alphas, csize \in csizes,
          failAt \in FailPoints(6) :
         IF ~readable
         THEN /\ log' = [log EXCEPT !.last = Call("load_image", 0, "invalid image")]
              /\ UNCHANGED <<file, fpos, object_offsets, io, image_info>>
         ELSE \E S \in {load_image_objects(Engine(failAt), alpha, csize)} :
                  /\ Commit(S)
                  /\ image_info' = IF Failed(S) THEN image_info
                                   ELSE Append(image_info, [s |-> ImageDim, obj |-> S.ret])
                  /\ log' = [log EXCEPT !.last = Call("load_image", 0, S.err),
                                        !.args = [s |-> alpha, env |-> Len(image_info)]]
    /\ UNCHANGED <<gen_state, ofile, opts, pages, builtin_fonts, font_objects,
                   separation_objects, page>>

\* PdfGen::create_separation: one colour-space object, registered under the
\* next SeparationId
create_separation ==
    /\ gen_state = "alive"
    /\ Len(separation_objects) < MaxResources
    /\ \E failAt \in FailPoints(3) :
         \E S \in {add_object(Engine(failAt), [type |-> "Separation"],
                               Off(Len("[ /Separation /Gold /DeviceCMYK 0 0 R ]") + 1))} :
             /\ Commit(S)
             /\ separation_objects' = IF Failed(S) THEN separation_objects
                                      ELSE Append(separation_objects, S.ret)
             /\ log' = [log EXCEPT !.last = Call("create_separation", 0, S.err)]
    /\ UNCHANGED <<gen_state, ofile, opts, pages, image_info, builtin_fonts,
                   font_objects, page>>

\* PdfGen::load_font: a font object, registered under the next FontId; a
\* loaded font has a FreeType face, a builtin font has none
load_font ==
    /\ gen_state = "alive"
    /\ Cardinality({i \in 1..Len(font_objects) : font_objects[i].face}) < MaxResources
    /\ \E failAt \in FailPoints(3) :
         \E S \in {add_object(Engine(failAt), [type |-> "Font", builtin |-> -1],
                               Off(Len("<< /Type /Font /Subtype /Type0 >>") + 1))} :
             /\ Commit(S)
             /\ font_objects' = IF Failed(S) THEN font_objects
                                ELSE Append(font_objects, [font_obj |-> S.ret, face |-> TRUE])
             /\ log' = [log EXCEPT !.last = Call("load_font", 0, S.err)]
    /\ UNCHANGED <<gen_state, ofile, opts, pages, image_info, builtin_fonts,
                   separation_objects, page>>

font_names == <<"Times-Roman", "Helvetica", "Courier", "Times-Roman-Bold", "Helvetica-Bold",
                "Courier-Bold", "Times-Italic", "Helvetica-Oblique", "Courier-Oblique">>
\* the builtin fonts the model's callers ask for
BuiltinFonts == {0, 2}

\* PdfGen::get_builtin_font_id; R = [S, builtin_fonts, font_objects, fid]
\* the registration that ends get_builtin_font_id; S1 is the engine after the
\* font object was added
builtin_font_registered(S1, bf, fo, font) ==
    IF Failed(S1)
    THEN [S |-> S1, builtin_fonts |-> bf, font_objects |-> fo, fid |-> -1]
    ELSE [S |-> S1,
          builtin_fonts |-> [f \in DOMAIN bf \cup {font} |-> IF f = font THEN Len(fo) ELSE bf[f]],
          font_objects |-> Append(fo, [font_obj |-> S1.ret, face |-> FALSE]),
          fid |-> Len(fo)]

\* a variant for comparison: the map of the fonts written is not looked up
get_builtin_font_id_unfound(S, bf, fo, font) ==
    builtin_font_registered(
      add_object(S, [type |-> "Font", builtin |-> font],
                 Off(52 + Len(font_names[font + 1]))),
      bf, fo, font)

get_builtin_font_id(S, bf, fo, font) ==
    IF font \in DOMAIN bf
    THEN [S |-> S, builtin_fonts |-> bf, font_objects |-> fo, fid |-> bf[font]]
    ELSE builtin_font_registered(
           add_object(S, [type |-> "Font", builtin |-> font],
                      Off(52 + Len(font_names[font + 1]))),
           bf, fo, font)

\* registry lookups; .at() throws on an id that was never handed out
ValidId(registry, id) == id >= 0 /\ id < Len(registry)
image_object_number(iid) == image_info[iid + 1].obj
font_object_number(fid) == font_objects[fid + 1].font_obj
separation_object_number(sid) == separation_objects[sid + 1]

(* ------------------------- PdfPage: the builder ------------------------ *)
NewPage ==
    [state |-> "live", commands |-> <<>>, resources |-> <<>>,
     used_images |-> {}, used_fonts |-> {}, used_subset_fonts |-> {},
     used_colorspaces |-> {}, uses_all_colorspace |-> FALSE, gstates |-> <<>>,
     is_finalized |-> FALSE,
     \* history: the tokens the operations emitted in call order, the buffer
     \* the finalize that ran formatted into the stream, the page records added,
     \* the finalize runs made and the exception the destructor caught
     emitted |-> <<>>, delivered |-> <<>>, added |-> <<>>, finalize_runs |-> 0,
     dtor_finalizes |-> 0, finalize_calls |-> 0, nops |-> 0, caught |-> "none"]
Unborn == [NewPage EXCEPT !.state = "unborn"]

\* a variant for comparison: the operators are put in front of the buffer
cmd_prepend(commands, toks) == toks \o commands

\* every cmd_* and render_* ends in commands += ... or format_to(cmd_appender, ...)
cmd_append(commands, toks) == commands \o toks

Emit(pg, toks) ==
    [pg EXCEPT !.commands = cmd_append(@, toks), !.emitted = @ \o toks]

\* the operands the model's callers pass for point size and position
TextAt == [pointsize |-> 12, x |-> 10, y |-> 100]
TdTok == Tok("Td", NoRes, <<>>, Len("  ") + Digits(TextAt.x) + 1 + Digits(TextAt.y) + Len(" Td") + 1)
BTTok == Tok("BT", NoRes, <<>>, Len("BT") + 1)
ETTok == Tok("ET", NoRes, <<>>, Len("ET") + 1)

NameLen(r) ==
    CASE r.t = "Image" -> Len("/Image") + Digits(r.n)
      [] r.t = "Font" -> Len("/Font") + Digits(r.n)
      [] r.t = "SFont" -> Len("/SFont") + Digits(r.n) + Len("-") + Digits(r.s)
      [] r.t = "CSpace" -> Len("/CSpace") + Digits(r.n)
      [] r.t = "All" -> Len("/All")
      [] r.t = "GS" -> Len("/GS") + Digits(r.n)
      [] OTHER -> 0

cmd_plain_tokens(op) == <<Tok(op, NoRes, <<>>, Len(op) + 1)>>

cmd_CS_tokens(res) == <<Tok("CS", res, <<>>, NameLen(res) + Len(" CS") + 1)>>
cmd_cs_tokens(res) == <<Tok("cs", res, <<>>, NameLen(res) + Len(" cs") + 1)>>
cmd_SCN_tokens == <<Tok("SCN", NoRes, <<1>>, Len("1 SCN") + 1)>>
cmd_scn_tokens == <<Tok("scn", NoRes, <<1>>, Len("1 scn") + 1)>>
cmd_gs_tokens(name) ==
    LET res == ResName("GS", name, 0)
    IN  <<Tok("gs", res, <<>>, NameLen(res) + Len(" gs") + 1)>>

draw_image_tokens(obj_num) ==
    LET res == ResName("Image", obj_num, 0)
    IN  <<Tok("Do", res, <<>>, NameLen(res) + Len(" Do") + 1)>>

TfTok(res) ==
    Tok("Tf", res, <<>>, Len("  ") + NameLen(res) + 1 + Digits(TextAt.pointsize) + Len(" Tf") + 1)

\* a variant for comparison: the closing parenthesis is copied as it is
clean_byte_open_only(c) ==
    IF c > 127 THEN <<32>>
    ELSE IF c = 40 THEN <<92, 40>>
    ELSE IF c = 92 THEN <<92, 92>>
    ELSE <<c>>

\* render_ascii_text_builtin's cleaning of one byte
clean_byte(c) ==
    IF c > 127 THEN <<32>>
    ELSE IF c = 40 THEN <<92, 40>>
    ELSE IF c = 92 THEN <<92, 92>>
    ELSE IF c = 41 THEN <<92, 41>>
    ELSE <<c>>

RECURSIVE cleaned_text(_)
cleaned_text(text) ==
    IF text = <<>> THEN <<>> ELSE clean_byte(Head(text)) \o cleaned_text(Tail(text))

render_ascii_tokens(font_object, ascii_text) ==
    LET cleaned == cleaned_text(ascii_text)
    IN  <<BTTok, TfTok(ResName("Font", font_object, 0)), TdTok,
          Tok("Tj", NoRes, cleaned, Len("  (") + Len(cleaned) + Len(") Tj") + 1), ETTok>>

\* "(\{:o}) Tj": the glyph index in octal
RECURSIVE OctDigits(_)
OctDigits(n) == IF n < 8 THEN 1 ELSE 1 + OctDigits(n \div 8)

render_raw_glyph_tokens(font_obj, font_glyph_id) ==
    <<BTTok, TfTok(ResName("Font", font_obj, 0)), TdTok,
      Tok("Tj", NoRes, <<font_glyph_id>>,
          Len("  (") + 1 + OctDigits(font_glyph_id) + Len(") Tj") + 1),
      ETTok>>

(* ------------------- PdfPage: render_utf8_text ------------------------- *)
\* iconv(to_codepoint, ...) with room for one UCS-4 unit: it converts the
\* UTF-8 sequence at text[i] and reports where the next one starts; an invalid
\* sequence is EILSEQ, a sequence cut short by the end of the text is EINVAL
IsCont(c) == c >= 128 /\ c <= 191
SeqLen(lead) ==
    IF lead < 128 THEN 1
    ELSE IF lead >= 194 /\ lead <= 223 THEN 2
    ELSE IF lead >= 224 /\ lead <= 239 THEN 3
    ELSE IF lead >= 240 /\ lead <= 244 THEN 4
    ELSE 0
\* the bits the lead byte of a sequence of n bytes contributes
LeadBits(lead, n) ==
    IF n = 1 THEN lead ELSE IF n = 2 THEN lead - 192 ELSE IF n = 3 THEN lead - 224 ELSE lead - 240

RECURSIVE ContBits(_, _, _, _)
\* the value of the sequence whose lead bits are acc and whose continuation
\* bytes are text[j..last]
ContBits(text, j, last, acc) ==
    IF j > last THEN acc ELSE ContBits(text, j + 1, last, acc * 64 + (text[j] - 128))

\* overlong forms, surrogates and values beyond U+10FFFF are no UTF-8
ValidScalar(cp, n) ==
    /\ n = 2 => cp >= 128
    /\ n = 3 => cp >= 2048 /\ ~(cp >= 55296 /\ cp <= 57343)
    /\ n = 4 => cp >= 65536 /\ cp <= 1114111

iconv_decoded(text, i, n) ==
    IF n = 0 THEN [rc |-> "EILSEQ", codepoint |-> 0, next |-> i]
    ELSE IF \E j \in (i + 1)..(i + n - 1) : j <= Len(text) /\ ~IsCont(text[j])
    THEN [rc |-> "EILSEQ", codepoint |-> 0, next |-> i]
    ELSE IF i + n - 1 > Len(text) THEN [rc |-> "EINVAL", codepoint |-> 0, next |-> i]
    ELSE IF ~ValidScalar(ContBits(text, i + 1, i + n - 1, LeadBits(text[i], n)), n)
    THEN [rc |-> "EILSEQ", codepoint |-> 0, next |-> i]
    ELSE [rc |-> "ok", codepoint |-> ContBits(text, i + 1, i + n - 1, LeadBits(text[i], n)),
          next |-> i + n]

\* a variant for comparison: room for two units, of which the first is kept
iconv_second(text, c) ==
    IF c.rc = "ok" /\ c.next <= Len(text)
       /\ iconv_decoded(text, c.next, SeqLen(text[c.next])).rc = "ok"
    THEN [c EXCEPT !.next = iconv_decoded(text, c.next, SeqLen(text[c.next])).next]
    ELSE c
iconv_two_units(text, i) == iconv_second(text, iconv_decoded(text, i, SeqLen(text[i])))

iconv(text, i) == iconv_decoded(text, i, SeqLen(text[i]))

\* what the font manager and FreeType answer during one call: the subset table
\* ("one": every codepoint in subset 0; "split": subset 0 is full and the
\* codepoints beyond ASCII are in subset 1), whether the face has a kerning
\* table, the kerning pairs, and whether FT_Get_Kerning fails
FontEnv(table, has_kerning, pairs, ft_error) ==
    [table |-> table, has_kerning |-> has_kerning, pairs |-> pairs, ft_error |-> ft_error]

\* PdfGen::get_subset_glyph: the subset of the codepoint and its byte there
get_subset_glyph(env, codepoint) ==
    [ss |-> IF env.table = "split" /\ codepoint > 127 THEN 1 ELSE 0,
     glyph_id |-> codepoint % 255]

\* FT_Get_Kerning for the glyphs of two codepoints: kerning.x
FT_Get_Kerning(env, left, right) ==
    IF <<left, right>> \in DOMAIN env.pairs THEN env.pairs[<<left, right>>] ELSE 0

RECURSIVE HexDigits(_)
HexDigits(n) == IF n < 16 THEN 1 ELSE 1 + HexDigits(n \div 16)

\* "BT\n  /SFont{}-{} {} Tf\n  {} {} Td\n  [ <" on the first glyph,
\* ") ] TJ\n  /SFont{}-{} {} Tf\n  [ <" when the subset changes
subset_switch_tokens(res, previous_subset, ss) ==
    IF previous_subset = -1
    THEN <<BTTok, TfTok(res), TdTok, Tok("[", NoRes, <<>>, 3), Tok("<", NoRes, <<>>, 2)>>
    ELSE IF ss # previous_subset
    THEN <<Tok(")", NoRes, <<>>, 1), Tok("]", NoRes, <<>>, 2), Tok("TJ", NoRes, <<>>, 4),
           TfTok(res), Tok("[", NoRes, <<>>, 3), Tok("<", NoRes, <<>>, 2)>>
    ELSE <<>>

\* ">{}<" with int(kerning.x)
kerning_split(K) ==
    <<Tok(">", NoRes, <<>>, 1),
      Tok("num", NoRes, <<K>>, Digits(Max(K, -K)) + (IF K < 0 THEN 1 ELSE 0)),
      Tok("<", NoRes, <<>>, 1)>>

\* a variant for comparison: no test for a previous codepoint
kerning_tokens_from_first(env, previous_codepoint, codepoint) ==
    IF env.has_kerning /\ FT_Get_Kerning(env, previous_codepoint, codepoint) # 0
    THEN kerning_split(FT_Get_Kerning(env, previous_codepoint, codepoint))
    ELSE <<>>

\* the kerning is emitted when the face has kerning, there is a previous
\* codepoint and kerning.x is not 0
kerning_tokens(env, previous_codepoint, codepoint) ==
    IF env.has_kerning /\ previous_codepoint # -1
       /\ FT_Get_Kerning(env, previous_codepoint, codepoint) # 0
    THEN kerning_split(FT_Get_Kerning(env, previous_codepoint, codepoint))
    ELSE <<>>

\* "{:02x}" of (unsigned char)glyph_id
hex_token(glyph_id) ==
    Tok("hex", NoRes, <<glyph_id % 256>>, Max(2, HexDigits(glyph_id % 256)))

\* the result of the loop: the tokens appended, the exception thrown if any,
\* and the subsets inserted into used_subset_fonts
TextRun(toks, err, subsets) == [toks |-> toks, err |-> err, subsets |-> subsets]
\* a variant for comparison: the subset of a glyph is not put into the set
Prepended_unregistered(toks, ss, R) == TextRun(toks \o R.toks, R.err, R.subsets)
\* used_subset_fonts.insert(current_subset_glyph.ss) and the output of one
\* glyph, in front of what the rest of the loop does
Prepended(toks, ss, R) == TextRun(toks \o R.toks, R.err, {ss} \cup R.subsets)

RECURSIVE utf8_loop(_, _, _, _, _, _)
\* one iteration of the loop for the codepoint iconv delivered in c
utf8_glyph(font_obj, text, c, previous_codepoint, previous_subset, env) ==
    IF c.rc # "ok" THEN TextRun(<<>>, c.rc, {})
    ELSE IF env.has_kerning /\ previous_codepoint # -1 /\ env.ft_error
    THEN TextRun(subset_switch_tokens(
                   ResName("SFont", font_obj, get_subset_glyph(env, c.codepoint).ss),
                   previous_subset, get_subset_glyph(env, c.codepoint).ss),
                 "Getting kerning data failed.", {get_subset_glyph(env, c.codepoint).ss})
    ELSE Prepended(
           subset_switch_tokens(
             ResName("SFont", font_obj, get_subset_glyph(env, c.codepoint).ss),
             previous_subset, get_subset_glyph(env, c.codepoint).ss)
           \o kerning_tokens(env, previous_codepoint, c.codepoint)
           \o <<hex_token(get_subset_glyph(env, c.codepoint).glyph_id)>>,
           get_subset_glyph(env, c.codepoint).ss,
           utf8_loop(font_obj, text, c.next, c.codepoint,
                     get_subset_glyph(env, c.codepoint).ss, env))

\* while(in_ptr < text.data() + text.size()), then "> ] TJ\nET\n"
utf8_loop(font_obj, text, in_ptr, previous_codepoint, previous_subset, env) ==
    IF in_ptr > Len(text)
    THEN TextRun(<<Tok(">", NoRes, <<>>, 1), Tok("]", NoRes, <<>>, 2),
                   Tok("TJ", NoRes, <<>>, 4), ETTok>>, "none", {})
    ELSE utf8_glyph(font_obj, text, iconv(text, in_ptr), previous_codepoint,
                    previous_subset, env)

render_utf8_tokens(font_obj, text, env) == utf8_loop(font_obj, text, 1, -1, -1, env)

(* --------------------- PdfPage: the resource dictionary ---------------- *)
blend_mode_names == <<"Normal", "Multiply", "Screen", "Overlay", "Darken", "Lighten",
                      "ColorDodge", "ColorBurn", "HardLight", "SoftLight", "Difference",
                      "Exclusion", "Hue", "Saturation", "Color", "Luminosity">>
intent_names == <<"RelativeColorimetric", "AbsoluteColorimetric", "Saturation", "Perceptual">>

\* one top-level entry: a key with either a name value or a sub-dictionary,
\* whose entries come from a set (sub) or from a list (seq)
DictEntry(key, name, sub, seq) == [key |-> key, name |-> name, sub |-> sub, seq |-> seq]
KeyRef(res, ref) == [k |-> res, ref |-> ref]

DeviceName(cs) ==
    CASE cs = "PDF_DEVICE_RGB" -> "/DeviceRGB"
      [] cs = "PDF_DEVICE_GRAY" -> "/DeviceGray"
      [] cs = "PDF_DEVICE_CMYK" -> "/DeviceCMYK"

\* PdfPage::build_resource_dict; the result is [err, dict]
build_resource_dict(pg) ==
    LET top == <<DictEntry("ColorSpace", DeviceName(opts.output_colorspace), {}, <<>>)>>
        xobj == IF pg.used_images # {}
                THEN <<DictEntry("XObject", "",
                                 {KeyRef(ResName("Image", i, 0), i) : i \in pg.used_images},
                                 <<>>)>>
                ELSE <<>>
        font == IF pg.used_fonts # {} \/ pg.used_subset_fonts # {}
                THEN <<DictEntry("Font", "",
                                 {KeyRef(ResName("Font", i, 0), i) : i \in pg.used_fonts}
                                 \cup {KeyRef(ResName("SFont", font_objects[ss.fid + 1].font_obj,
                                                      ss.subset_id),
                                              font_objects[ss.fid + 1].font_obj) :
                                       ss \in pg.used_subset_fonts},
                                 <<>>)>>
                ELSE <<>>
        all_fails == pg.uses_all_colorspace /\ Len(separation_objects) = 0
        cspace == IF pg.used_colorspaces # {} \/ pg.uses_all_colorspace
                  THEN <<DictEntry("ColorSpace", "",
                                   (IF pg.uses_all_colorspace /\ ~all_fails
                                    THEN {KeyRef(ResName("All", 0, 0), separation_objects[1])}
                                    ELSE {})
                                   \cup {KeyRef(ResName("CSpace", i, 0), i) :
                                         i \in pg.used_colorspaces},
                                   <<>>)>>
                  ELSE <<>>
        gs_fails == \E i \in 1..Len(pg.gstates) :
                       \/ pg.gstates[i].state.blend_mode >= Len(blend_mode_names)
                       \/ pg.gstates[i].state.intent >= Len(intent_names)
        extg == IF pg.gstates # <<>>
                THEN <<DictEntry("ExtGState", "", {},
                                 [i \in 1..Len(pg.gstates) |->
                                    [k |-> ResName("GS", pg.gstates[i].name, 0),
                                     state |-> pg.gstates[i].state]])>>
                ELSE <<>>
    IN  IF all_fails THEN [err |-> "out_of_range", dict |-> top \o xobj \o font]
        ELSE IF gs_fails THEN [err |-> "out_of_range", dict |-> top \o xobj \o font \o cspace]
        ELSE [err |-> "none", dict |-> top \o xobj \o font \o cspace \o extg]

KeyLen(kr) == Len("    ") + NameLen(kr.k) + 1 + Digits(kr.ref) + Len(" 0 R") + 1

RECURSIVE KeysLen(_)
\* the bytes of the entries of a sub-dictionary filled from a set
KeysLen(set) ==
    IF set = {} THEN 0
    ELSE LET x == CHOOSE y \in set : TRUE IN KeyLen(x) + KeysLen(set \ {x})

GsEntryLen(e) ==
    Len("    ") + NameLen(e.k) + Len(" <<") + 1
    + (IF e.state.blend_mode >= 0
       THEN Len("      /BM /") + Len(blend_mode_names[e.state.blend_mode + 1]) + 1 ELSE 0)
    + (IF e.state.intent >= 0
       THEN Len("      /RenderingIntent /") + Len(intent_names[e.state.intent + 1]) + 1 ELSE 0)
    + Len("    >>") + 1

RECURSIVE GsLen(_)
GsLen(seq) == IF seq = <<>> THEN 0 ELSE GsEntryLen(Head(seq)) + GsLen(Tail(seq))

EntryLen(e) ==
    IF e.name # ""
    THEN Len("  /") + Len(e.key) + 1 + Len(e.name) + 1
    ELSE Len("  /") + Len(e.key) + Len(" <<") + 1
         + KeysLen(e.sub) + GsLen(e.seq) + Len("  >>") + 1

RECURSIVE EntriesLen(_)
EntriesLen(dict) == IF dict = <<>> THEN 0 ELSE EntryLen(Head(dict)) + EntriesLen(Tail(dict))

\* the bytes of the resources string
ResourcesLen(dict) == Len("<<") + 1 + EntriesLen(dict) + Len(">>") + 1

(* --------------------------- PdfPage: finalize ------------------------- *)
\* PdfGen::add_page; R = [S, pages]
\* pages.emplace_back(PageOffsets{resource_num, page_num}); S2 is the engine
\* after the second add_object
page_emplaced(S2, pgs, resource_num) ==
    [S |-> S2,
     pages |-> IF Failed(S2) THEN pgs
               ELSE Append(pgs, [resource_obj_num |-> resource_num,
                                 commands_obj_num |-> S2.ret])]

\* the second half of add_page; S1 is the engine after the resources object
add_page_data(S1, pgs, page_data) ==
    page_emplaced(add_object(S1, page_data.body, page_data.len), pgs, S1.ret)

\* a variant for comparison: the content stream is written before the
\* resource dictionary
page_emplaced_after_stream(S2, pgs, page_num) ==
    [S |-> S2,
     pages |-> IF Failed(S2) THEN pgs
               ELSE Append(pgs, [resource_obj_num |-> S2.ret,
                                 commands_obj_num |-> page_num])]
add_page_resources(S1, pgs, resource_data) ==
    page_emplaced_after_stream(add_object(S1, resource_data.body, resource_data.len),
                               pgs, S1.ret)
add_page_stream_first(S, pgs, resource_data, page_data) ==
    add_page_resources(add_object(S, page_data.body, page_data.len), pgs, resource_data)

add_page(S, pgs, resource_data, page_data) ==
    add_page_data(add_object(S, resource_data.body, resource_data.len), pgs, page_data)

\* the builder once finalize has set is_finalized and built the dictionary
marked_finalized(pg, dict) ==
    [pg EXCEPT !.is_finalized = TRUE, !.resources = dict,
               !.finalize_runs = @ + 1, !.delivered = pg.commands]

\* a variant for comparison: the line end before "endstream" is counted too
stream_data_with_eol(commands, size) ==
    [body |-> [type |-> "Stream", Length |-> size + 1, stream |-> commands],
     len |-> Off(35 + Digits(size + 1) + size)]

\* the content stream finalize hands to add_page: "<<\n  /Length n\n>>\nstream\n...endstream\n"
stream_data(commands, size) ==
    [body |-> [type |-> "Stream", Length |-> size, stream |-> commands],
     len |-> Off(35 + Digits(size) + size)]
resource_data(dict) ==
    [body |-> [type |-> "Resources", dict |-> dict], len |-> Off(ResourcesLen(dict))]

\* the return of finalize; R is what add_page left
page_delivered(pg1, R) ==
    [pg |-> IF Failed(R.S) THEN pg1 ELSE [pg1 EXCEPT !.added = Append(@, Len(R.pages))],
     S |-> R.S, pages |-> R.pages]

\* finalize from build_resource_dict's result rd on
finalize_with(pg, S, rd) ==
    IF rd.err # "none"
    THEN [pg |-> marked_finalized(pg, rd.dict), S |-> Throw(S, rd.err), pages |-> pages]
    ELSE page_delivered(marked_finalized(pg, rd.dict),
                        add_page(S, pages, resource_data(rd.dict),
                                 stream_data(pg.commands, SumLen(pg.commands))))

\* a variant for comparison: no is_finalized check on entry
finalize_unguarded(pg, S) == finalize_with(pg, S, build_resource_dict(pg))

\* PdfPage::finalize on builder record pg; R = [pg, S, pages]
finalize(pg, S) ==
    IF pg.is_finalized
    THEN [pg |-> pg, S |-> Throw(S, "Tried to finalize a page object twice."), pages |-> pages]
    ELSE finalize_with(pg, S, build_resource_dict(pg))

(* ----------------------- PdfPage: the operations ----------------------- *)
GsNames == {1}
GraphicsStates == {[blend_mode |-> -1, intent |-> -1], [blend_mode |-> 1, intent |-> 3]}
\* the byte strings passed to render_ascii_text_builtin
AsciiTexts == {<<65, 40, 200>>}
\* the UTF-8 strings passed to render_utf8_text: "", "A" and the euro sign
Utf8Texts == {<<>>, <<65, 226, 130, 172>>}
\* the kerning pairs of the faces: none, or -50 font units for A/f and for
\* the glyph of codepoint (uint32_t)-1 followed by A
NoPairs == <<>>
KernAf == [p \in {<<65, 102>>, <<-1, 65>>} |-> -50]
FontEnvs == {FontEnv("split", h, NoPairs, FALSE) : h \in BOOLEAN}

CanCall(b) ==
    /\ gen_state = "alive"
    /\ page[b].state = "live"
    /\ page[b].nops < MaxOps

\* the builder after one more operation that emitted toks
Op(b, pg, toks) == [page EXCEPT ![b] = [Emit(pg, toks) EXCEPT !.nops = @ + 1]]
\* the builder after an operation that threw before emitting anything
Thrown(b) == [page EXCEPT ![b].nops = @ + 1]

PdfGen_new_page(b) ==
    /\ gen_state = "alive"
    /\ page[b].state = "unborn"
    /\ \A c \in Builders : c < b => page[c].state # "unborn"
    /\ page' = [page EXCEPT ![b] = NewPage]
    /\ log' = [log EXCEPT !.last = Call("new_page", b, "none")]
    /\ UNCHANGED <<genvars, io>>

\* cmd_q and cmd_Q
cmd_plain(b, ops) ==
    /\ CanCall(b)
    /\ \E op \in ops :
         /\ page' = Op(b, page[b], cmd_plain_tokens(op))
         /\ log' = [log EXCEPT !.last = Call(op, b, "none")]
    /\ UNCHANGED <<genvars, io>>

draw_image(b) ==
    /\ CanCall(b)
    /\ \E im_id \in 0..Len(image_info) :
         IF ~ValidId(image_info, im_id)
         THEN /\ page' = Thrown(b)
              /\ log' = [log EXCEPT !.last = Call("draw_image", b, "out_of_range")]
         ELSE LET obj_num == image_object_number(im_id)
              IN  /\ page' = Op(b, [page[b] EXCEPT !.used_images = @ \cup {obj_num}],
                                draw_image_tokens(obj_num))
                  /\ log' = [log EXCEPT !.last = Call("draw_image", b, "none")]
    /\ UNCHANGED <<genvars, io>>

set_separation_stroke_color(b) ==
    /\ CanCall(b)
    /\ \E id \in 0..Len(separation_objects) :
         IF ~ValidId(separation_objects, id)
         THEN /\ page' = Thrown(b)
              /\ log' = [log EXCEPT !.last = Call("set_separation_stroke_color", b,
                                                  "out_of_range")]
         ELSE LET idnum == separation_object_number(id)
              IN  /\ page' = Op(b, [page[b] EXCEPT !.used_colorspaces = @ \cup {idnum}],
                                cmd_CS_tokens(ResName("CSpace", idnum, 0)) \o cmd_SCN_tokens)
                  /\ log' = [log EXCEPT !.last = Call("set_separation_stroke_color", b, "none")]
    /\ UNCHANGED <<genvars, io>>

set_separation_nonstroke_color(b) ==
    /\ CanCall(b)
    /\ \E id \in 0..Len(separation_objects) :
         IF ~ValidId(separation_objects, id)
         THEN /\ page' = Thrown(b)
              /\ log' = [log EXCEPT !.last = Call("set_separation_nonstroke_color", b,
                                                  "out_of_range")]
         ELSE LET idnum == separation_object_number(id)
              IN  /\ page' = Op(b, [page[b] EXCEPT !.used_colorspaces = @ \cup {idnum}],
                                cmd_cs_tokens(ResName("CSpace", idnum, 0)) \o cmd_scn_tokens)
                  /\ log' = [log EXCEPT !.last = Call("set_separation_nonstroke_color", b,
                                                      "none")]
    /\ UNCHANGED <<genvars, io>>

set_all_stroke_color(b) ==
    /\ CanCall(b)
    /\ page' = Op(b, [page[b] EXCEPT !.uses_all_colorspace = TRUE],
                  cmd_CS_tokens(ResName("All", 0, 0)) \o cmd_SCN_tokens)
    /\ log' = [log EXCEPT !.last = Call("set_all_stroke_color", b, "none")]
    /\ UNCHANGED <<genvars, io>>

cmd_gs(b) ==
    /\ CanCall(b)
    /\ \E gs_name \in GsNames :
         page' = Op(b, page[b], cmd_gs_tokens(gs_name))
    /\ log' = [log EXCEPT !.last = Call("cmd_gs", b, "none")]
    /\ UNCHANGED <<genvars, io>>

add_graphics_state(b) ==
    /\ CanCall(b)
    /\ Len(page[b].gstates) < MaxGstates
    /\ \E name \in GsNames, gs \in GraphicsStates :
         page' = Op(b, [page[b] EXCEPT !.gstates = Append(@, [name |-> name, state |-> gs])],
                    <<>>)
    /\ log' = [log EXCEPT !.last = Call("add_graphics_state", b, "none")]
    /\ UNCHANGED <<genvars, io>>

render_ascii_text_builtin(b, texts) ==
    /\ CanCall(b)
    /\ \E font_id \in BuiltinFonts, ascii_text \in texts,
          failAt \in FailPoints(3) :
         /\ \E R \in {get_builtin_font_id(Engine(failAt), builtin_fonts, font_objects,
                                           font_id)} :
                /\ Commit(R.S)
                /\ builtin_fonts' = R.builtin_fonts
                /\ font_objects' = R.font_objects
                /\ log' = [log EXCEPT !.last = Call("render_ascii_text_builtin", b, R.S.err),
                                      !.args = [s |-> ascii_text, env |-> font_id]]
                /\ IF Failed(R.S)
                   THEN page' = Thrown(b)
                   ELSE LET font_object == R.font_objects[R.fid + 1].font_obj
                        IN  page' = Op(b, [page[b] EXCEPT !.used_fonts = @ \cup {font_object}],
                                       render_ascii_tokens(font_object, ascii_text))
    /\ UNCHANGED <<gen_state, ofile, opts, pages, image_info, separation_objects>>

\* the log after a render_utf8_text call with these arguments
TextCall(b, err, text, env) ==
    [log EXCEPT !.last = Call("render_utf8_text", b, err), !.args = [s |-> text, env |-> env]]

render_utf8_text(b, texts, envs) ==
    /\ CanCall(b)
    /\ \E fid \in 0..Len(font_objects), text \in texts, env \in envs,
          errno_stale \in BOOLEAN :
         IF text = <<>>
         THEN /\ page' = Op(b, page[b], <<>>)
              /\ log' = TextCall(b, "none", text, env)
         ELSE IF errno_stale
         THEN /\ page' = Thrown(b)
              /\ log' = TextCall(b, "errno", text, env)
         ELSE IF ~ValidId(font_objects, fid)
         THEN /\ page' = Thrown(b)
              /\ log' = TextCall(b, "out_of_range", text, env)
         ELSE IF ~font_objects[fid + 1].face
         THEN /\ page' = Thrown(b)
              /\ log' = TextCall(b, "builtin font", text, env)
         ELSE \E R \in {render_utf8_tokens(font_objects[fid + 1].font_obj, text, env)} :
                  /\ page' = Op(b, [page[b] EXCEPT
                                      !.used_subset_fonts =
                                          @ \cup {[fid |-> fid, subset_id |-> ss] :
                                                  ss \in R.subsets}],
                                R.toks)
                  /\ log' = TextCall(b, R.err, text, env)
    /\ UNCHANGED <<genvars, io>>

render_raw_glyph(b) ==
    /\ CanCall(b)
    /\ \E fid \in 0..Len(font_objects), font_glyph_id \in {65} :
         IF ~ValidId(font_objects, fid)
         THEN /\ page' = Thrown(b)
              /\ log' = [log EXCEPT !.last = Call("render_raw_glyph", b, "out_of_range")]
         ELSE LET font_data == font_objects[fid + 1]
              IN  /\ page' = Op(b, page[b],
                                render_raw_glyph_tokens(font_data.font_obj, font_glyph_id))
                  /\ log' = [log EXCEPT !.last = Call("render_raw_glyph", b, "none")]
    /\ UNCHANGED <<genvars, io>>

(* ----------------------- PdfPage: device colours ----------------------- *)
\* An IEEE double is NaN, an infinity or a finite value; the finite values of
\* the model are the multiples of one half, with a sign of their own so that
\* -0.0 is a value.  Fin(neg, half) is (-1)^neg * half / 2.
NaN == [k |-> "nan", neg |-> FALSE, half |-> 0]
Inf(neg) == [k |-> "inf", neg |-> neg, half |-> 0]
Fin(neg, half) == [k |-> "fin", neg |-> neg, half |-> half]
isnan(d) == d.k = "nan"
\* the place of a double that is not NaN on the number line, in halves
HalvesOf(d) ==
    IF d.k = "inf" THEN (IF d.neg THEN -(10 ^ 6) ELSE 10 ^ 6)
    ELSE IF d.neg THEN -d.half ELSE d.half
\* a < b on doubles: false whenever one of them is NaN
DLess(x, y) == ~isnan(x) /\ ~isnan(y) /\ HalvesOf(x) < HalvesOf(y)
\* the characters "{}" prints for a finite double
DoubleChars(d) ==
    (IF d.neg THEN 1 ELSE 0) + Digits(d.half \div 2) + (IF d.half % 2 = 1 THEN Len(".5") ELSE 0)

maxval == Fin(FALSE, 2)
minval == Fin(FALSE, 0)

\* a variant for comparison: clamping by the two comparisons only
clamp_by_comparison(value) ==
    IF DLess(value, minval) THEN minval
    ELSE IF DLess(maxval, value) THEN maxval
    ELSE value

\* LimitDouble::clamp
clamp(value) ==
    IF isnan(value) THEN minval
    ELSE IF DLess(value, minval) THEN minval
    ELSE IF DLess(maxval, value) THEN maxval
    ELSE value

\* LimitDouble(), LimitDouble(double new_val) and operator=(double d) on a
\* default-constructed object: the value stored
LimitDouble(how, d) ==
    IF how = "default" THEN minval ELSE clamp(d)

\* the doubles the model's callers pass
Doubles ==
    {NaN, Inf(TRUE), Inf(FALSE), Fin(TRUE, 3), Fin(TRUE, 1), Fin(TRUE, 0), Fin(FALSE, 0),
     Fin(FALSE, 1), Fin(FALSE, 2), Fin(FALSE, 3)}
\* the colours the model's callers pass
DeviceRGBColors ==
    {[r |-> LimitDouble("construct", r), g |-> LimitDouble("construct", g),
      b |-> LimitDouble("construct", bl)] :
     r \in {minval, maxval}, g \in {minval, maxval}, bl \in {minval, maxval}}

\* PdfColorConverter::to_gray and to_cmyk of an RGB colour
to_gray(c) == [v |-> Fin(FALSE, 2 * ((c.r.half + c.g.half + c.b.half) \div 6))]
to_cmyk(c) ==
    [c |-> Fin(FALSE, 2 - c.r.half), m |-> Fin(FALSE, 2 - c.g.half),
     y |-> Fin(FALSE, 2 - c.b.half), k |-> minval]

\* cmd_RG, cmd_rg, cmd_G, cmd_g, cmd_K, cmd_k: "{} {} {} rg\n" and the like
cmd_color_tokens(op, values) ==
    <<Tok(op, NoRes, values,
          SumLen([i \in DOMAIN values |-> [len |-> DoubleChars(values[i]) + 1]]) + Len(op) + 1)>>

\* the switch on g->opts.output_colorspace of set_stroke_color (ops <<"RG", "G",
\* "K">>) and of set_nonstroke_color (ops <<"rg", "g", "k">>) for an RGB colour:
\* the tokens emitted and the converter call made
rgb_color_switch(c, ops) ==
    CASE opts.output_colorspace = "PDF_DEVICE_RGB" ->
             [toks |-> cmd_color_tokens(ops[1], <<c.r, c.g, c.b>>), cm |-> "none"]
      [] opts.output_colorspace = "PDF_DEVICE_GRAY" ->
             [toks |-> cmd_color_tokens(ops[2], <<to_gray(c).v>>), cm |-> "to_gray"]
      [] opts.output_colorspace = "PDF_DEVICE_CMYK" ->
             [toks |-> cmd_color_tokens(ops[3], <<to_cmyk(c).c, to_cmyk(c).m, to_cmyk(c).y,
                                                   to_cmyk(c).k>>),
              cm |-> "to_cmyk"]

\* the log after a colour-setting call: the colour passed, its space and the
\* converter call made
ColorCall(op, b, c, space, cm) ==
    [log EXCEPT !.last = Call(op, b, "none"), !.args = [s |-> c, env |-> space], !.cm = cm]

\* PdfPage::set_stroke_color(const DeviceRGBColor &)
set_stroke_color(b) ==
    /\ CanCall(b)
    /\ \E c \in DeviceRGBColors :
         \E R \in {rgb_color_switch(c, <<"RG", "G", "K">>)} :
             /\ page' = Op(b, page[b], R.toks)
             /\ log' = ColorCall("set_stroke_color", b, c, "PDF_DEVICE_RGB", R.cm)
    /\ UNCHANGED <<genvars, io>>

\* PdfPage::set_nonstroke_color(const DeviceRGBColor &)
set_nonstroke_color(b) ==
    /\ CanCall(b)
    /\ \E c \in DeviceRGBColors :
         \E R \in {rgb_color_switch(c, <<"rg", "g", "k">>)} :
             /\ page' = Op(b, page[b], R.toks)
             /\ log' = ColorCall("set_nonstroke_color", b, c, "PDF_DEVICE_RGB", R.cm)
    /\ UNCHANGED <<genvars, io>>

\* PdfPage::set_nonstroke_color(const DeviceGrayColor &): cmd_g, whatever the
\* output colour space is; the caller's colour is DeviceGrayColor{} as it is,
\* DeviceGrayColor{d}, or DeviceGrayColor{} with d assigned to its v
set_nonstroke_color_gray(b) ==
    /\ CanCall(b)
    /\ \E how \in {"default", "construct", "assign"}, d \in Doubles :
         \E c \in {[v |-> LimitDouble(how, d)]} :
             /\ page' = Op(b, page[b], cmd_color_tokens("g", <<c.v>>))
             /\ log' = [ColorCall("set_nonstroke_color", b, c, "PDF_DEVICE_GRAY", "none")
                          EXCEPT !.raw = [how |-> how, d |-> d]]
    /\ UNCHANGED <<genvars, io>>

\* an explicit call of PdfPage::finalize; an exception reaches the caller
PdfPage_finalize(b) ==
    /\ gen_state = "alive"
    /\ page[b].state = "live"
    /\ page[b].finalize_calls < MaxFinalizeCalls
    /\ \E failAt \in FailPoints(6) :
         \E R \in {finalize(page[b], Engine(failAt))} :
             /\ Commit(R.S)
             /\ pages' = R.pages
             /\ page' = [page EXCEPT ![b] = [R.pg EXCEPT !.finalize_calls = @ + 1]]
             /\ log' = [log EXCEPT !.last = Call("finalize", b, R.S.err)]
    /\ UNCHANGED <<gen_state, ofile, opts, image_info, builtin_fonts, font_objects,
                   separation_objects>>

\* the try { finalize(); } catch(const std::exception &e) { printf(...); } of
\* the destructor; R is what finalize left
finalize_caught(R) ==
    [pg |-> [R.pg EXCEPT !.dtor_finalizes = @ + 1, !.caught = R.S.err],
     S |-> R.S, pages |-> R.pages,
     stdout |-> IF Failed(R.S) THEN {R.S.err} ELSE {}, escaped |-> FALSE]

\* a variant for comparison: the destructor finalizes whatever is_finalized says
dtor_body_always(pg, S) == finalize_caught(finalize_with(pg, S, build_resource_dict(pg)))

\* PdfPage::~PdfPage; R = [pg, S, pages, stdout, escaped]
PdfPage_dtor_body(pg, S) ==
    IF ~pg.is_finalized
    THEN finalize_caught(finalize(pg, S))
    ELSE [pg |-> pg, S |-> S, pages |-> pages, stdout |-> {}, escaped |-> FALSE]

PdfPage_dtor(b) ==
    /\ gen_state = "alive"
    /\ page[b].state = "live"
    /\ \E failAt \in FailPoints(6) :
         \E R \in {PdfPage_dtor_body(page[b], Engine(failAt))} :
             /\ Commit(R.S)
             /\ pages' = R.pages
             /\ page' = [page EXCEPT ![b] = [R.pg EXCEPT !.state = "dead"]]
             /\ log' = [log EXCEPT !.last = Call("~PdfPage", b, "none"),
                                   !.stdout = @ \cup R.stdout,
                                   !.escaped = @ \/ R.escaped]
    /\ UNCHANGED <<gen_state, ofile, opts, image_info, builtin_fonts, font_objects,
                   separation_objects>>

(* ------------------------------ imageops ------------------------------- *)
\* the largest image read: two whole bytes wide, two rows high
MaxWidth == 16
MaxHeight == 2

\* a two-colour PNG as png_image_finish_read delivers it: one colormap index
\* per pixel, row after row, and the first colormap entry
PngImage(width, height, colormap0, pattern, failed) ==
    [width |-> width, height |-> height, colormap0 |-> colormap0, failed |-> failed,
     buf |-> [k \in 1..(width * height) |->
                IF pattern = 0 THEN 0 ELSE IF pattern = 1 THEN 1 ELSE k % 2]]
PngImages ==
    {PngImage(w, h, c, p, f) :
        w \in 1..MaxWidth, h \in 1..MaxHeight, c \in 0..1, p \in 0..2, f \in BOOLEAN}
NoPng == [image |-> PngImage(1, 1, 0, 0, FALSE), state |-> "unread", err |-> "none",
          result |-> [w |-> 0, h |-> 0, pixels |-> <<>>], final_size |-> 0]

\* const int white_pixel = colormap[0] == 1 ? 1 : 0
white_pixel(image) == IF image.colormap0 = 1 THEN 1 ELSE 0
num_padding_bits(w) == IF w % 8 = 0 THEN 0 ELSE 8 - (w % 8)

\* current_byte <<= 1; if(buf[offset] == white_pixel) current_byte |= 1;
\* on an unsigned char
shifted_in(R, image) ==
    ((R.current_byte * 2) % 256)
    + (IF image.buf[R.offset + 1] = white_pixel(image) THEN 1 ELSE 0)

\* the body of the loop over i: the pixel's bit is shifted in, and at
\* i = 8, 16, ... the byte is pushed inverted and cleared
mono_pixel(R, image, i) ==
    [pixels |-> IF i % 8 = 0 /\ i > 0
                THEN Append(R.pixels, 255 - shifted_in(R, image))
                ELSE R.pixels,
     current_byte |-> IF i % 8 = 0 /\ i > 0 THEN 0 ELSE shifted_in(R, image),
     offset |-> R.offset + 1]

RECURSIVE mono_row(_, _, _)
\* for(int i = 0; i < result.w; ++i)
mono_row(R, image, i) ==
    IF i >= image.width THEN R ELSE mono_row(mono_pixel(R, image, i), image, i + 1)

\* if(num_padding_bits > 0) { current_byte <<= num_padding_bits; push_back(~current_byte); }
mono_padding(R, image) ==
    IF num_padding_bits(image.width) > 0
    THEN [R EXCEPT !.pixels =
            Append(@, 255 - ((R.current_byte * 2^num_padding_bits(image.width)) % 256))]
    ELSE R

RECURSIVE mono_rows(_, _, _)
\* for(int j = 0; j < result.h; ++j), current_byte starting at 0 in every row
mono_rows(R, image, j) ==
    IF j >= image.height THEN R
    ELSE mono_rows(mono_padding(mono_row([R EXCEPT !.current_byte = 0], image, 0), image),
                   image, j + 1)

\* what load_mono_png leaves when the loops left R
mono_result(R, image) ==
    [image |-> image, state |-> "read",
     err |-> IF Len(R.pixels) = ((image.width + 7) \div 8) * image.height
             THEN "none" ELSE "assertion failed",
     result |-> [w |-> image.width, h |-> image.height, pixels |-> R.pixels],
     final_size |-> ((image.width + 7) \div 8) * image.height]

\* load_mono_png
load_mono_png(image) ==
    IF image.failed
    THEN [NoPng EXCEPT !.image = image, !.state = "read",
                       !.err = "PNG file reading failed: "]
    ELSE mono_result(mono_rows([pixels |-> <<>>, current_byte |-> 0, offset |-> 0],
                               image, 0),
                     image)

\* load_image_file on a colormap PNG of two entries: return load_mono_png(image)
load_image_file ==
    /\ log.png.state = "unread"
    /\ log' = [log EXCEPT !.last = Call("load_image_file", 0, load_mono_png(log.png.image).err),
                          !.png = load_mono_png(log.png.image)]
    /\ UNCHANGED <<genvars, page, io>>

(* --------------------------- TTOffsetTable ----------------------------- *)
\* the largest number of tables asked for
MaxTables == 64

\* a value stored into an int16_t field
Int16(x) == ((x + 2^15) % 2^16) - 2^15
\* 16 * pow2 as far as an int16_t keeps it: its low 16 bits
Times16(pow2) == Int16(16 * (pow2 % 2^12))

RECURSIVE shift_count(_, _)
\* int i = 0; while((1 << i) < new_size) ++i;
shift_count(i, new_size) == IF 2^i < new_size THEN shift_count(i + 1, new_size) ELSE i

\* 1 << (i - 1); for i = 0 the shift count is negative and the value is
\* whatever the machine's shift leaves: the count taken modulo 32, or nothing
pow2_outcomes(i) == IF i > 0 THEN {2^(i - 1)} ELSE {-(2^30) - 2^30, 0}

RECURSIVE log2(_)
\* (int)log2(pow2) for the values pow2 takes; no number for pow2 <= 0, which
\* the conversion turns into a value whose low 16 bits are 0
log2(p) == IF p <= 1 THEN 0 ELSE 1 + log2(p \div 2)

\* TTOffsetTable::set_table_size with the value pow2 got
set_table_size(new_size, pow2) ==
    [scaler |-> 65536,
     num_tables |-> new_size,
     search_range |-> Times16(pow2),
     entry_selector |-> Int16(log2(pow2)),
     range_shift |-> Int16(new_size * 16 - Times16(pow2))]

NoTable == [new_size |-> 0, state |-> "unset",
            offset |-> [scaler |-> 65536, num_tables |-> 0, search_range |-> 0,
                        entry_selector |-> 0, range_shift |-> 0]]

\* a call offset.set_table_size(new_size) with the size the caller holds
TTOffsetTable_set_table_size ==
    /\ log.tt.state = "unset"
    /\ \E pow2 \in pow2_outcomes(shift_count(0, log.tt.new_size)) :
         log' = [log EXCEPT !.last = Call("set_table_size", 0, "none"),
                            !.tt.state = "set",
                            !.tt.offset = set_table_size(log.tt.new_size, pow2)]
    /\ UNCHANGED <<genvars, page, io>>

(* ------------------------------ the C API ------------------------------ *)
\* a4pdf_generator_add_page: gen->add_page(*ctx) is called as a statement and
\* its result dropped; the function then returns (A4PDF_EC)ErrorCode::NoError.
\* The page is added the way this source adds one: the builder's commands
\* and resources are handed over by finalize.
a4pdf_generator_add_page(b) ==
    /\ gen_state = "alive"
    /\ page[b].state = "live"
    /\ page[b].finalize_calls < MaxFinalizeCalls
    /\ \E failAt \in FailPoints(6) :
         \E R \in {finalize(page[b], Engine(failAt))} :
             /\ Commit(R.S)
             /\ pages' = R.pages
             /\ page' = [page EXCEPT ![b] = [R.pg EXCEPT !.finalize_calls = @ + 1]]
             /\ log' = [log EXCEPT !.last = Call("a4pdf_generator_add_page", b, R.S.err),
                                   !.ec = "NoError"]
    /\ UNCHANGED <<gen_state, ofile, opts, image_info, builtin_fonts, font_objects,
                   separation_objects>>

(* --------------------------- the specification ------------------------- *)
\* the history before any call
NoLog ==
    [last |-> NoCall, close_runs |-> 0, close_err |-> "none", fclose_calls |-> 0,
     escaped |-> FALSE, stderr |-> {}, stdout |-> {},
     \* the arguments of the last call of a text, colour or image
     \* operation (for load_image: the alpha flag and the id returned)
     args |-> [s |-> <<>>, env |-> <<>>],
     \* the colour converter call the last colour-setting call made
     cm |-> "none",
     \* how the last gray colour passed was made, and from which double
     raw |-> [how |-> "default", d |-> NaN],
     \* the A4PDF_EC the last C API call returned
     ec |-> "none",
     \* the PNG file load_image_file is given and what it returned
     png |-> NoPng,
     \* the table count a font writer holds and its offset table
     tt |-> NoTable]

InitState(faults, options, logs) ==
    /\ gen_state = "unborn"
    /\ ofile = "null"
    /\ file = <<>>
    /\ fpos = Off(0)
    /\ opts \in options
    /\ object_offsets = <<>>
    /\ pages = <<>>
    /\ image_info = <<>>
    /\ builtin_fonts = <<>>
    /\ font_objects = <<>>
    /\ separation_objects = <<>>
    /\ page = [b \in Builders |-> Unborn]
    /\ io = [write_failed |-> FALSE, late_write |-> FALSE, faults |-> faults]
    /\ log \in logs

InitWith(faults, options) == InitState(faults, options, {NoLog})

\* The document's life with write failures: open, images, pages, close.
Init == InitWith(MaxIOFailures, {o \in Options : o.output_colorspace = "PDF_DEVICE_RGB"})

Next ==
    \/ PdfGen_ctor
    \/ PdfGen_dtor
    \/ load_image(BOOLEAN, ImageSizes)
    \/ \E b \in Builders :
         \/ PdfGen_new_page(b)
         \/ PdfPage_finalize(b)
         \/ PdfPage_dtor(b)

Spec == Init /\ [][Next]_vars

\* One page builder and the operations that use resources, on a disk that
\* does not fail.
InitPage == InitWith(0, {o \in Options : o.output_colorspace = "PDF_DEVICE_CMYK"})

NextPage ==
    \/ PdfGen_ctor
    \/ PdfGen_dtor
    \/ load_image({FALSE}, {Off(12)})
    \/ create_separation
    \/ load_font
    \/ PdfGen_new_page(1)
    \/ cmd_plain(1, {"q", "Q"})
    \/ draw_image(1)
    \/ set_separation_stroke_color(1)
    \/ set_separation_nonstroke_color(1)
    \/ set_all_stroke_color(1)
    \/ cmd_gs(1)
    \/ add_graphics_state(1)
    \/ render_ascii_text_builtin(1, AsciiTexts)
    \/ render_utf8_text(1, Utf8Texts, FontEnvs)
    \/ render_raw_glyph(1)
    \/ PdfPage_finalize(1)
    \/ PdfPage_dtor(1)

SpecPage == InitPage /\ [][NextPage]_vars

\* Text on one page: the strings, subset tables and kerning tables a caller and
\* a font can present to the text operations.
TextStrings ==
    {<<>>, <<65, 102>>, <<65, 102, 226, 130, 172>>, <<226, 130, 172, 10>>, <<65, 200>>,
     <<102, 237, 160, 128>>}
TextEnvs ==
    {FontEnv(t, h, p, e) : t \in {"one", "split"}, h \in BOOLEAN, p \in {NoPairs, KernAf},
                           e \in BOOLEAN}
TextBytes == {<<>>, <<65, 40, 200>>, <<40, 41, 92>>, <<92, 92, 127, 128, 255, 41>>}

InitText == InitWith(0, {o \in Options : o.output_colorspace = "PDF_DEVICE_GRAY"})

NextText ==
    \/ PdfGen_ctor
    \/ PdfGen_dtor
    \/ load_font
    \/ PdfGen_new_page(1)
    \/ render_utf8_text(1, TextStrings, TextEnvs)
    \/ render_ascii_text_builtin(1, TextBytes)
    \/ PdfPage_finalize(1)
    \/ PdfPage_dtor(1)

SpecText == InitText /\ [][NextText]_vars

\* Device colours on one page, for each output colour space.
InitColor == InitWith(0, Options)

NextColor ==
    \/ PdfGen_ctor
    \/ PdfGen_dtor
    \/ PdfGen_new_page(1)
    \/ set_stroke_color(1)
    \/ set_nonstroke_color(1)
    \/ set_nonstroke_color_gray(1)
    \/ PdfPage_finalize(1)
    \/ PdfPage_dtor(1)

SpecColor == InitColor /\ [][NextColor]_vars

\* The C API: a4pdf_generator_new, a4pdf_page_draw_context_new,
\* a4pdf_generator_add_page, a4pdf_dc_destroy, a4pdf_generator_destroy, with
\* write failures.
InitCapi == InitWith(MaxIOFailures, {o \in Options : o.output_colorspace = "PDF_DEVICE_RGB"})

NextCapi ==
    \/ PdfGen_ctor
    \/ PdfGen_dtor
    \/ \E b \in Builders :
         \/ PdfGen_new_page(b)
         \/ a4pdf_generator_add_page(b)
         \/ PdfPage_dtor(b)

SpecCapi == InitCapi /\ [][NextCapi]_vars

\* Text in the builtin fonts on several pages, between loaded fonts and
\* finalized pages, on a disk that takes every write.
InitFonts == InitWith(0, {o \in Options : o.output_colorspace = "PDF_DEVICE_RGB"})

NextFonts ==
    \/ PdfGen_ctor
    \/ PdfGen_dtor
    \/ load_font
    \/ \E b \in Builders :
         \/ PdfGen_new_page(b)
         \/ render_ascii_text_builtin(b, AsciiTexts)
         \/ PdfPage_finalize(b)
         \/ PdfPage_dtor(b)

SpecFonts == InitFonts /\ [][NextFonts]_vars

\* Offset tables of fonts of every small number of tables.
InitTables ==
    InitState(0, {o \in Options : o.output_colorspace = "PDF_DEVICE_RGB"},
              {[NoLog EXCEPT !.tt.new_size = n] : n \in 1..MaxTables})

NextTables == TTOffsetTable_set_table_size

SpecTables == InitTables /\ [][NextTables]_vars

\* Reading two-colour PNG files of every small size.
InitMono ==
    InitState(0, {o \in Options : o.output_colorspace = "PDF_DEVICE_RGB"},
              {[NoLog EXCEPT !.png.image = image] : image \in PngImages})

NextMono == load_image_file

SpecMono == InitMono /\ [][NextMono]_vars

(* ------------------------------ properties ----------------------------- *)
\* the places in the file of the chunks of one kind
ChunksOf(kind) == {k \in DOMAIN file : file[k].kind = kind}
\* the places of the completely written object bodies of one type
DataOf(type) == {k \in ChunksOf("objdata") : file[k].full /\ file[k].body.type = type}
\* the completely written object headers
FullHeaders == {k \in ChunksOf("objhdr") : file[k].full}
IsPrefix(s, t) == Len(s) <= Len(t) /\ SubSeq(t, 1, Len(s)) = s

\* the resource names a content stream references
StreamRefs(toks) == {toks[i].res : i \in DOMAIN toks} \ {NoRes}
\* the keys of the sub-dictionaries of a resource dictionary
DictKeys(dict) ==
    UNION {{kr.k : kr \in dict[i].sub} \cup {dict[i].seq[j].k : j \in DOMAIN dict[i].seq} :
           i \in DOMAIN dict}

\* C1: for every page delivered to the document, the resource names its
\* content stream references are exactly the keys of its resource dictionary:
\* every referenced name is a key, and no key is unreferenced.
C1_KeysAreTheReferencedNames ==
    \A b \in Builders :
        page[b].added # <<>> => StreamRefs(page[b].delivered) = DictKeys(page[b].resources)

\* the numbers of the objects add_object wrote to the end
Emitted == {file[k].num : k \in {j \in ChunksOf("endobj") : file[j].full}}

\* C2: every emitted object number has exactly one completely written header
\* "i 0 obj", which starts at the offset recorded for i; and the emitted
\* numbers are 1, 2, 3, ... with no gap, each used once, in file order.
C2_OneHeaderAtRecordedOffset ==
    /\ \A i \in Emitted :
         /\ i \in DOMAIN object_offsets
         /\ \E k \in FullHeaders :
              /\ {j \in FullHeaders : file[j].num = i} = {k}
              /\ file[k].off = object_offsets[i]
    /\ Emitted = 1..Cardinality(Emitted)
    /\ \A j, k \in FullHeaders : j < k => file[j].num < file[k].num

\* C3: a cross-reference table that was written has object_count + 1 entries,
\* which is the N of its header, and every entry is 20 bytes long.
C3_XrefEntriesAre20Bytes ==
    \A x \in ChunksOf("xref") :
        file[x].full =>
            /\ file[x].body.N = Len(object_offsets) + 1
            /\ Len(file[x].body.entries) = file[x].body.N
            /\ \A i \in DOMAIN file[x].body.entries : file[x].body.entries[i].len = 20

\* C4: in a trailer that was written, /Size is object_count + 1, /Info is
\* object 1 and object 1 is the info dictionary, /Root is the number of the
\* catalog, the catalog's /Pages is the number of the page-tree root, and
\* startxref is the offset at which the cross-reference table begins.
C4_TrailerFields ==
    \A t \in ChunksOf("trailer") :
        file[t].full =>
            /\ file[t].body.Size = Len(object_offsets) + 1
            /\ file[t].body.Info = 1
            /\ \E k \in DataOf("Info") : file[k].num = 1
            /\ \A k \in ChunksOf("objdata") :
                 file[k].num = file[t].body.Root => file[k].body.type = "Catalog"
            /\ \E c \in DataOf("Catalog") :
                 /\ file[c].num = file[t].body.Root
                 /\ \E p \in DataOf("Pages") : file[p].num = file[c].body.Pages
                 /\ \A k \in ChunksOf("objdata") :
                      file[k].num = file[c].body.Pages => file[k].body.type = "Pages"
            /\ \E x \in ChunksOf("xref") :
                 /\ ChunksOf("xref") = {x}
                 /\ file[x].off = file[t].body.startxref

C4_TrailerWritten ==
    /\ gen_state = "destroyed"
    /\ Len(pages) = MaxBuilders
    /\ Len(image_info) = 1
    /\ \E t \in ChunksOf("trailer") : file[t].full

\* the place of a chunk in the order of close_file: page objects, page-tree
\* root, catalog, cross-reference table, trailer; 0 for any other chunk
CloseRank(c) ==
    IF c.kind = "trailer" THEN 5
    ELSE IF c.kind = "xref" THEN 4
    ELSE IF c.kind # "objdata" THEN 0
    ELSE IF c.body.type = "Catalog" THEN 3
    ELSE IF c.body.type = "Pages" THEN 2
    ELSE IF c.body.type = "Page" THEN 1
    ELSE 0
CloseChunks == {k \in DOMAIN file : CloseRank(file[k]) > 0}

\* C5: the chunks of close-finalization are written only by the close, in the
\* order page objects, page-tree root, catalog, cross-reference table, trailer,
\* the last four at most once; no object is written after the cross-reference
\* table; and a close that succeeded wrote one page object per page record,
\* then the root, the catalog, the table and the trailer, which ends the file.
C5_CloseOrder ==
    /\ gen_state # "destroyed" => CloseChunks = {}
    /\ \A j, k \in CloseChunks : j < k => CloseRank(file[j]) <= CloseRank(file[k])
    /\ \A j, k \in CloseChunks :
         (CloseRank(file[j]) > 1 /\ CloseRank(file[j]) = CloseRank(file[k])) => j = k
    /\ \A x \in ChunksOf("xref"), k \in ChunksOf("objhdr") : k < x
    /\ (gen_state = "destroyed" /\ log.close_err = "none") =>
         /\ Len(file) >= 3 * (Len(pages) + 2) + 2
         /\ \A i \in DOMAIN pages :
              /\ file[Len(file) - 2 - 3 * (Len(pages) + 2) + 3 * i - 1].body.type = "Page"
              /\ file[Len(file) - 2 - 3 * (Len(pages) + 2) + 3 * i - 1].body.Contents
                   = pages[i].commands_obj_num
         /\ Cardinality({k \in CloseChunks : CloseRank(file[k]) = 1}) = Len(pages)
         /\ CloseRank(file[Len(file) - 6]) = 2
         /\ CloseRank(file[Len(file) - 3]) = 3
         /\ CloseRank(file[Len(file) - 1]) = 4
         /\ CloseRank(file[Len(file)]) = 5
         /\ file[Len(file)].full

C5_ClosedWithPages ==
    /\ gen_state = "destroyed"
    /\ log.close_err = "none"
    /\ Len(pages) = MaxBuilders

\* C6: once a write to the file has failed, no later operation attempts another
\* write, and when the document is gone the file handle has been closed.
C6_NoWriteAfterFailure ==
    io.write_failed =>
        /\ ~io.late_write
        /\ gen_state \in {"ctor_failed", "destroyed"} => ofile = "closed"

\* C7: a finalize call on a builder that is already finalized fails with the
\* "finalized twice" error and leaves the file, the offset table and the page
\* records as they were.
C7_RefinalizeFails ==
    [][\A b \in Builders :
         (/\ page'[b].finalize_calls = page[b].finalize_calls + 1
          /\ page[b].is_finalized)
         => /\ log'.last = Call("finalize", b, "Tried to finalize a page object twice.")
            /\ file' = file
            /\ object_offsets' = object_offsets
            /\ pages' = pages]_vars

C7_RefinalizeCalled ==
    \E b \in Builders :
        /\ log.last = Call("finalize", b, "Tried to finalize a page object twice.")
        /\ page[b].finalize_calls = 2
        /\ page[b].added # <<>>

\* C8: when a builder is destroyed no exception leaves the destructor; if
\* finalize was never called it runs exactly once, and the page is added
\* unless finalize failed, which is logged; if finalize was called before,
\* nothing more is written; and no builder ever adds more than one page.
C8_ScopeExit ==
    [][\A b \in Builders :
         /\ Len(page'[b].added) <= 1
         /\ (page[b].state = "live" /\ page'[b].state = "dead") =>
              /\ ~log'.escaped
              /\ IF page[b].finalize_calls = 0
                 THEN /\ page'[b].finalize_runs = 1
                      /\ page'[b].dtor_finalizes = 1
                      /\ IF page'[b].caught = "none"
                         THEN /\ Len(pages') = Len(pages) + 1
                              /\ page'[b].added = <<Len(pages')>>
                         ELSE /\ page'[b].caught \in log'.stdout
                              /\ pages' = pages
                              /\ page'[b].added = <<>>
                 ELSE /\ file' = file
                      /\ object_offsets' = object_offsets
                      /\ pages' = pages
                      /\ page'[b].finalize_runs = page[b].finalize_runs
                      /\ page'[b].dtor_finalizes = 0]_vars

C8_BothKindsOfExit ==
    \E b, c \in Builders :
        /\ page[b].state = "dead" /\ page[b].finalize_calls = 0 /\ Len(page[b].added) = 1
        /\ page[c].state = "dead" /\ page[c].finalize_calls > 0 /\ Len(page[c].added) = 1

C10_StreamIsEmissionOrder ==
    [][\A b \in Builders :
         /\ page'[b].commands = page'[b].emitted
         /\ page[b].state = "live" => IsPrefix(page[b].commands, page'[b].commands)
         /\ page'[b].finalize_runs = page[b].finalize_runs + 1 =>
              /\ page'[b].delivered = page[b].emitted
              /\ page'[b].added # <<>> =>
                   \E k \in DOMAIN file' :
                       /\ file'[k].kind = "objdata"
                       /\ file'[k].num = pages'[Len(pages')].commands_obj_num
                       /\ file'[k].body.type = "Stream"
                       /\ file'[k].body.stream = page[b].emitted
                       /\ file'[k].body.Length = SumLen(page[b].emitted)]_vars

C10_TwoOperationsDelivered ==
    \E b \in Builders :
        /\ page[b].added # <<>>
        /\ Len(page[b].delivered) > 1
        /\ page[b].delivered[1].op = "q"
        /\ page[b].delivered[Len(page[b].delivered)].op = "ET"

\* the completely written body of object number n, if there is one
ObjectData(n) == {k \in ChunksOf("objdata") : file[k].full /\ file[k].num = n}

\* what C11 asks of the page-tree roots in the file
KidsFollowPages ==
    \A p \in DataOf("Pages") :
        /\ Len(file[p].body.Kids) = Len(pages)
        /\ file[p].body.Count = Len(pages)
        /\ \A i \in DOMAIN pages :
             \E k \in ObjectData(file[p].body.Kids[i]) :
                 /\ file[k].body.type = "Page"
                 /\ file[k].body.Contents = pages[i].commands_obj_num
                 /\ file[k].body.Resources = pages[i].resource_obj_num
                 /\ file[k].body.Parent = file[p].num
        /\ \A i, j \in DOMAIN file[p].body.Kids :
             i < j => file[p].body.Kids[i] < file[p].body.Kids[j]

\* C11: page records are only ever appended, in the order of the add_page
\* calls, with increasing object numbers; and a page-tree root that was written
\* lists in /Kids one page object per page record, the i-th kid being the page
\* object of the i-th added page, /Count is the number of page records, and
\* the kids' object numbers are strictly increasing.
C11_KidsInAdditionOrder ==
    [][/\ IsPrefix(pages, pages')
       /\ \A i, j \in DOMAIN pages' :
            i < j => pages'[i].commands_obj_num < pages'[j].commands_obj_num
       /\ KidsFollowPages']_vars

C11_TwoKids ==
    /\ gen_state = "destroyed"
    /\ Len(pages) = 2
    /\ \E p \in DataOf("Pages") : Len(file[p].body.Kids) = 2

\* the tokens an operation appended to the buffer of builder b in this step
Appended(b) ==
    SubSeq(page'[b].commands, Len(page[b].commands) + 1, Len(page'[b].commands))
CountOp(toks, op) == Cardinality({i \in DOMAIN toks : toks[i].op = op})

RECURSIVE TextWellFormed(_, _, _, _, _)
\* a scan of the tokens from index i on: inText between BT and ET, inArr
\* between "[" and "]", inHex between "<" and ">"
TextWellFormed(toks, i, inText, inArr, inHex) ==
    IF i > Len(toks) THEN ~inText /\ ~inArr /\ ~inHex
    ELSE LET op == toks[i].op
         IN  CASE op = "BT" -> ~inText /\ TextWellFormed(toks, i + 1, TRUE, inArr, inHex)
               [] op = "ET" -> inText /\ ~inArr /\ ~inHex
                               /\ TextWellFormed(toks, i + 1, FALSE, inArr, inHex)
               [] op = "[" -> inText /\ ~inArr /\ ~inHex
                              /\ TextWellFormed(toks, i + 1, inText, TRUE, inHex)
               [] op = "]" -> inArr /\ ~inHex
                              /\ TextWellFormed(toks, i + 1, inText, FALSE, inHex)
               [] op = "<" -> inArr /\ ~inHex
                              /\ TextWellFormed(toks, i + 1, inText, inArr, TRUE)
               [] op = ">" -> inHex /\ TextWellFormed(toks, i + 1, inText, inArr, FALSE)
               [] op = ")" -> FALSE
               [] op = "hex" -> inHex /\ TextWellFormed(toks, i + 1, inText, inArr, inHex)
               [] op = "num" -> inArr /\ ~inHex
                                /\ TextWellFormed(toks, i + 1, inText, inArr, inHex)
               [] op \in {"Tf", "Td", "TJ"} ->
                      inText /\ ~inArr /\ ~inHex
                      /\ TextWellFormed(toks, i + 1, inText, inArr, inHex)
               [] OTHER -> TextWellFormed(toks, i + 1, inText, inArr, inHex)

\* C12: what a render_utf8_text call of a non-empty text appends is one text
\* object: one BT, which comes first, one ET, which comes last, and in between
\* every "[ <" is closed by "> ] TJ" before the next Tf or the ET, so that "<"
\* and ">" and the array brackets are balanced, also where the subset changes.
C12_OneBalancedTextObject ==
    [][\A b \in Builders :
         (/\ log'.last = Call("render_utf8_text", b, "none")
          /\ page'[b].nops = page[b].nops + 1
          /\ Appended(b) # <<>>)
         => /\ Head(Appended(b)).op = "BT"
            /\ Appended(b)[Len(Appended(b))].op = "ET"
            /\ CountOp(Appended(b), "BT") = 1
            /\ CountOp(Appended(b), "ET") = 1
            /\ TextWellFormed(Appended(b), 1, FALSE, FALSE, FALSE)]_vars

\* the places in a byte string where a UTF-8 sequence starts, and the Unicode
\* scalar values of a well-formed string
Starts(S) == SelectSeq([i \in 1..Len(S) |-> i], LAMBDA i : ~IsCont(S[i]))
Scalars(S) == [k \in DOMAIN Starts(S) |-> iconv(S, Starts(S)[k]).codepoint]
\* the places of the hex glyph bytes among tokens
HexAt(toks) == SelectSeq([i \in 1..Len(toks) |-> i], LAMBDA i : toks[i].op = "hex")
\* a render_utf8_text call on builder b returned normally in this step
Utf8Rendered(b) ==
    /\ log'.last = Call("render_utf8_text", b, "none")
    /\ page'[b].nops = page[b].nops + 1

\* what C13 asks of the tokens a call appended for the string S
GlyphBytesFollow(toks, S, env) ==
    /\ Len(HexAt(toks)) = Len(Starts(S))
    /\ \A i \in DOMAIN HexAt(toks) :
         /\ toks[HexAt(toks)[i]].len = 2
         /\ toks[HexAt(toks)[i]].txt = <<get_subset_glyph(env, Scalars(S)[i]).glyph_id>>
    /\ S = <<>> => toks = <<>>

\* C13: a render_utf8_text call that returns emits one glyph byte of two hex
\* digits per Unicode scalar value of its string, in the order of the scalar
\* values, and nothing at all for the empty string.
C13_OneHexPairPerScalar ==
    [][\A b \in Builders :
         Utf8Rendered(b) => GlyphBytesFollow(Appended(b), log'.args.s, log'.args.env)]_vars

C13_ThreeScalarsRendered ==
    /\ log.last = Call("render_utf8_text", 1, "none")
    /\ log.args.s = <<65, 102, 226, 130, 172>>
    /\ Len(HexAt(page[1].commands)) = 3

\* the kerning split ">K<" stands in tokens right before place k
SplitBefore(toks, k, K) ==
    /\ k > 3
    /\ toks[k - 3].op = ">"
    /\ toks[k - 2].op = "num" /\ toks[k - 2].txt = <<K>>
    /\ toks[k - 1].op = "<"
\* the kerning value of the pair of scalar values i - 1 and i of S
PairKerning(env, S, i) ==
    IF <<Scalars(S)[i - 1], Scalars(S)[i]>> \in DOMAIN env.pairs
    THEN env.pairs[<<Scalars(S)[i - 1], Scalars(S)[i]>>] ELSE 0

\* what C14 asks of the tokens a call appended for the string S
KerningFollows(toks, S, env) ==
    /\ \A i \in DOMAIN HexAt(toks) :
         IF i > 1 /\ env.has_kerning /\ PairKerning(env, S, i) # 0
         THEN SplitBefore(toks, HexAt(toks)[i], PairKerning(env, S, i))
         ELSE HexAt(toks)[i] > 1 /\ toks[HexAt(toks)[i] - 1].op \in {"<", "hex"}
              /\ ~(HexAt(toks)[i] > 2 /\ toks[HexAt(toks)[i] - 2].op = "num")
    /\ \A k \in DOMAIN toks :
         toks[k].op = "num" => k + 2 <= Len(toks) /\ toks[k + 2].op = "hex"

\* C14: in the output of a render_utf8_text call that returns, the kerning
\* split ">K<" stands immediately before the hex byte of glyph i exactly when
\* i is not the first glyph, the face has kerning and the kerning K of the pair
\* (glyph i-1, glyph i) is not zero; K is written as an integer, and there is
\* no kerning value anywhere else.
C14_KerningSplitIffNonzeroPair ==
    [][\A b \in Builders :
         Utf8Rendered(b) => KerningFollows(Appended(b), log'.args.s, log'.args.env)]_vars

C14_KernedPairRendered ==
    /\ log.last = Call("render_utf8_text", 1, "none")
    /\ log.args.s = <<65, 102, 226, 130, 172>>
    /\ log.args.env.has_kerning
    /\ log.args.env.pairs = KernAf
    /\ \E k \in DOMAIN page[1].commands : page[1].commands[k].txt = <<-50>>

RECURSIVE Unescaped(_, _)
\* the bytes a PDF reader takes from the literal string lit from place i on:
\* a backslash stands before a parenthesis or a backslash, which it yields;
\* <<-1>> ends the result at a parenthesis or a backslash that is not escaped
Unescaped(lit, i) ==
    IF i > Len(lit) THEN <<>>
    ELSE IF lit[i] = 92
    THEN IF i < Len(lit) /\ lit[i + 1] \in {40, 41, 92}
         THEN <<lit[i + 1]>> \o Unescaped(lit, i + 2)
         ELSE <<-1>>
    ELSE IF lit[i] \in {40, 41} THEN <<-1>>
    ELSE <<lit[i]>> \o Unescaped(lit, i + 1)

\* what C15 asks of the tokens a call appended for the bytes S and builtin font
AsciiBlock(toks, S, font_object) ==
    /\ Len(toks) = 5
    /\ toks[1].op = "BT"
    /\ toks[2].op = "Tf" /\ toks[2].res = ResName("Font", font_object, 0)
    /\ toks[3].op = "Td"
    /\ toks[4].op = "Tj"
    /\ toks[5].op = "ET"
    /\ Unescaped(toks[4].txt, 1) = [i \in DOMAIN S |-> IF S[i] >= 128 THEN 32 ELSE S[i]]
    /\ Len(toks[4].txt) = Len(S) + Cardinality({i \in DOMAIN S : S[i] \in {40, 41, 92}})

\* C15: a render_ascii_text_builtin call emits one BT ... Tj ET block whose
\* literal string holds, in order, a space for each input byte of 0x80 and
\* more, each parenthesis and backslash behind exactly one backslash and every
\* other byte as it is, so that no parenthesis or backslash in it is unescaped;
\* and the object number of the builtin font, which the Tf names and which is
\* the number of that font's object in the file, is in the used-font set.
C15_AsciiLiteralEscaped ==
    [][\A b \in Builders :
         (/\ log'.last = Call("render_ascii_text_builtin", b, "none")
          /\ page'[b].nops = page[b].nops + 1)
         => \E n \in page'[b].used_fonts :
                /\ AsciiBlock(Appended(b), log'.args.s, n)
                /\ log'.args.env \in DOMAIN builtin_fonts'
                /\ n = font_objects'[builtin_fonts'[log'.args.env] + 1].font_obj
                /\ \E k \in DOMAIN file' :
                       /\ file'[k].kind = "objdata" /\ file'[k].num = n
                       /\ file'[k].body = [type |-> "Font", builtin |-> log'.args.env]]_vars

C15_EveryKindOfByteCleaned ==
    /\ log.last = Call("render_ascii_text_builtin", 1, "none")
    /\ log.args.s = <<92, 92, 127, 128, 255, 41>>
    /\ \E k \in DOMAIN page[1].commands :
           page[1].commands[k].txt = <<92, 92, 92, 92, 127, 32, 32, 92, 41>>

\* the colour operator of an output colour space, stroking or not
OutputOperator(cs, stroking) ==
    CASE cs = "PDF_DEVICE_RGB" -> IF stroking THEN "RG" ELSE "rg"
      [] cs = "PDF_DEVICE_GRAY" -> IF stroking THEN "G" ELSE "g"
      [] cs = "PDF_DEVICE_CMYK" -> IF stroking THEN "K" ELSE "k"

\* C16: a colour-setting call emits one colour operator, which is the one of
\* the document's output colour space (rg/RG, g/G, k/K), and it invokes the
\* colour converter exactly when the space of the colour passed differs from
\* the output colour space.
C16_OperatorOfOutputSpace ==
    [][\A b \in Builders :
         (/\ log'.last.op \in {"set_stroke_color", "set_nonstroke_color"}
          /\ log'.last.b = b
          /\ page'[b].nops = page[b].nops + 1)
         => /\ Len(Appended(b)) = 1
            /\ Appended(b)[1].op = OutputOperator(opts.output_colorspace,
                                                  log'.last.op = "set_stroke_color")
            /\ (log'.cm # "none") <=> (log'.args.env # opts.output_colorspace)]_vars

\* the places of the object bodies written in this step
NewData == {k \in DOMAIN file' : k > Len(file) /\ file'[k].kind = "objdata"}

\* C17: a load_image call that returns wrote, for an image with an alpha
\* plane, exactly two objects, the soft mask first and the image second, the
\* image's /SMask being the soft mask's object number; for an image without
\* alpha exactly one object with no /SMask; and the id returned is that of the
\* image object.
C17_SoftMaskFirst ==
    [][log'.last = Call("load_image", 0, "none") /\ Len(image_info') = Len(image_info) + 1
       => /\ \A k \in NewData : file'[k].full /\ file'[k].body.type = "Image"
          /\ image_info'[log'.args.env + 1].obj = Len(object_offsets')
          /\ IF log'.args.s
             THEN /\ Len(object_offsets') = Len(object_offsets) + 2
                  /\ \E m, i \in NewData :
                         /\ NewData = {m, i}
                         /\ m < i
                         /\ file'[m].body.mask /\ file'[m].num = Len(object_offsets) + 1
                         /\ ~file'[i].body.mask /\ file'[i].num = Len(object_offsets) + 2
                         /\ file'[i].body.smask = file'[m].num
             ELSE /\ Len(object_offsets') = Len(object_offsets) + 1
                  /\ \E i \in NewData :
                         /\ NewData = {i}
                         /\ ~file'[i].body.mask /\ file'[i].num = Len(object_offsets')
                         /\ file'[i].body.smask < 0]_vars

C17_ImageWithAlphaLoaded ==
    /\ log.last = Call("load_image", 0, "none")
    /\ log.args.s = TRUE
    /\ Len(image_info) = 1
    /\ Cardinality(DataOf("Image")) = 2

\* C18: in every content stream object in the file, /Length is the size of
\* the command buffer, which is the number of bytes that stand between the
\* "stream" line and the line end before "endstream".
C18_LengthIsStreamSize ==
    \A k \in DataOf("Stream") :
        /\ file[k].body.Length = SumLen(file[k].body.stream)
        /\ file[k].len = Off(Len("<<") + 1 + Len("  /Length ") + Digits(file[k].body.Length) + 1
                             + Len(">>") + 1 + Len("stream") + 1
                             + file[k].body.Length
                             + 1 + Len("endstream") + 1)

C18_LongStreamWritten ==
    \E k \in DataOf("Stream") :
        /\ file[k].body.Length > 9
        /\ Len(file[k].body.stream) > 1
        /\ page[1].delivered = file[k].body.stream

\* C19: the value a LimitDouble stores after construction from, or
\* assignment of, any double is not NaN and lies in [0, 1]: it is 0 for NaN
\* and for values below 0, 1 for values above 1, the value itself otherwise;
\* and a default-constructed LimitDouble stores 0.
C19_LimitDoubleClamped ==
    [][\A b \in Builders :
         (/\ log'.last = Call("set_nonstroke_color", b, "none")
          /\ log'.args.env = "PDF_DEVICE_GRAY"
          /\ page'[b].nops = page[b].nops + 1)
         => /\ ~isnan(log'.args.s.v)
            /\ ~DLess(log'.args.s.v, Fin(FALSE, 0))
            /\ ~DLess(Fin(FALSE, 2), log'.args.s.v)
            /\ Appended(b)[1].txt = <<log'.args.s.v>>
            /\ IF log'.raw.how = "default" THEN log'.args.s.v = Fin(FALSE, 0)
               ELSE IF log'.raw.d.k = "nan" THEN log'.args.s.v = Fin(FALSE, 0)
               ELSE IF HalvesOf(log'.raw.d) < 0 THEN log'.args.s.v = Fin(FALSE, 0)
               ELSE IF HalvesOf(log'.raw.d) > 2 THEN log'.args.s.v = Fin(FALSE, 2)
               ELSE log'.args.s.v = log'.raw.d]_vars

C19_EveryKindOfDoubleStored ==
    /\ page[1].nops = 2
    /\ log.last = Call("set_nonstroke_color", 1, "none")
    /\ log.args.env = "PDF_DEVICE_GRAY"
    /\ log.raw = [how |-> "assign", d |-> NaN]
    /\ \E k \in DOMAIN page[1].commands : page[1].commands[k].txt = <<Fin(FALSE, 1)>>

\* C20: a document that is opened and closed with no page and no image, on a
\* disk that takes every write, is closed without error and its file holds
\* the header, exactly three objects (1 the info dictionary, 2 the page-tree
\* root with empty /Kids and /Count 0, 3 the catalog, whose /Pages is 2), a
\* cross-reference table of the free head and 3 entries, and a trailer with
\* /Size 4.
C20_EmptyDocument ==
    (gen_state = "destroyed" /\ ~io.write_failed /\ pages = <<>> /\ image_info = <<>>) =>
        /\ log.close_err = "none"
        /\ ofile = "closed"
        /\ Len(object_offsets) = 3
        /\ [k \in DOMAIN file |-> file[k].kind]
             = <<"pdfheader", "objhdr", "objdata", "endobj", "objhdr", "objdata", "endobj",
                 "objhdr", "objdata", "endobj", "xref", "trailer">>
        /\ \A k \in DOMAIN file : file[k].full
        /\ file[3].num = 1 /\ file[3].body.type = "Info"
        /\ file[6].num = 2 /\ file[6].body = [type |-> "Pages", Kids |-> <<>>, Count |-> 0]
        /\ file[9].num = 3 /\ file[9].body = [type |-> "Catalog", Pages |-> 2]
        /\ file[11].body.N = 4
        /\ Len(file[11].body.entries) = 4
        /\ file[11].body.entries[1].kind = "f"
        /\ \A i \in 1..3 :
             /\ file[11].body.entries[i + 1].kind = "n"
             /\ file[11].body.entries[i + 1].off = file[3 * i - 1].off
        /\ file[12].body.Size = 4
        /\ file[12].body.Root = 3
        /\ file[12].body.Info = 1

C20_EmptyDocumentClosed ==
    /\ gen_state = "destroyed"
    /\ ~io.write_failed
    /\ pages = <<>>
    /\ image_info = <<>>
    /\ log.fclose_calls = 1
    /\ \A b \in Builders : page[b].state = "unborn"

\* C21: every fallible operation of the C API returns the status of the
\* operation underneath; a4pdf_generator_add_page returns NoError exactly when
\* PdfGen::add_page succeeded and the page was added.
C21_AddPageStatusReturned ==
    log.last.op = "a4pdf_generator_add_page"
        => (log.ec = "NoError" <=> log.last.err = "none")

\* the objects written before the first page object of the close
BeforePages == {k \in ChunksOf("objhdr") : \A q \in DataOf("Page") : file[k].num < file[q].num}

\* C22: the page-tree number write_pages predicts before it writes the first
\* page object (objects so far + pending pages + 1), and writes as /Parent
\* into every page object, is the number the page-tree root then gets, for
\* every number of pages and of objects written before; the mismatch error
\* "Buggy McBugFace!" never occurs.
C22_PredictedParentIsRoot ==
    /\ log.close_err # "Buggy McBugFace!"
    /\ "Buggy McBugFace!" \notin log.stderr
    /\ \A q \in DataOf("Page") :
         /\ file[q].body.Parent = Cardinality(BeforePages) + Len(pages) + 1
         /\ \A k \in ChunksOf("objhdr") \cup ChunksOf("objdata") :
              file[k].num = file[q].body.Parent =>
                  \A p \in DataOf("Pages") \cup DataOf("Page") : file[p].num <= file[k].num
    /\ \A p \in DataOf("Pages") :
         /\ file[p].num = Cardinality(ChunksOf("objhdr")) - 1 \/ ~log.close_err = "none"
         /\ \A q \in DataOf("Page") : file[q].body.Parent = file[p].num

C22_PagesAfterImagesClosed ==
    /\ gen_state = "destroyed"
    /\ log.close_err = "none"
    /\ Len(pages) = 2
    /\ image_info # <<>>
    /\ \E p \in DataOf("Pages") : file[p].num > 4 + Len(pages)

\* C23: in a cross-reference table, entry 0 is the head of the free list with
\* offset 0 and generation 65535, and for every k from 1 to the object count
\* the k-th entry after it is an in-use entry of generation 0 holding the
\* offset recorded for object k (the place where the header of object k
\* begins), the entries following the order of the object numbers.
C23_XrefEntriesFollowObjects ==
    \A x \in ChunksOf("xref") :
        /\ Len(file[x].body.entries) = Len(object_offsets) + 1
        /\ file[x].body.entries[1].kind = "f"
        /\ file[x].body.entries[1].off = Off(0)
        /\ file[x].body.entries[1].gen = 65535
        /\ \A k \in DOMAIN object_offsets :
             /\ file[x].body.entries[k + 1].kind = "n"
             /\ file[x].body.entries[k + 1].gen = 0
             /\ file[x].body.entries[k + 1].off = object_offsets[k]
        /\ \A h \in ChunksOf("objhdr") :
             file[x].body.entries[file[h].num + 1].off = file[h].off

C23_TableOfSixObjects ==
    /\ gen_state = "destroyed"
    /\ \E x \in ChunksOf("xref") : file[x].full /\ Len(file[x].body.entries) > 6
    /\ \E i \in DOMAIN object_offsets : object_offsets[i].hi > 0

\* the page objects of the close refer to the two objects of their own page
PageObjectsReferToOwnPair ==
    \A q \in DataOf("Page") :
        /\ file[q].body.Contents = file[q].body.Resources + 1
        /\ \A k \in ChunksOf("objdata") :
             /\ file[k].num = file[q].body.Resources => file[k].body.type = "Resources"
             /\ file[k].num = file[q].body.Contents => file[k].body.type = "Stream"
        /\ \E i \in DOMAIN pages :
             /\ i = Cardinality({r \in DataOf("Page") : r <= q})
             /\ pages[i].resource_obj_num = file[q].body.Resources
             /\ pages[i].commands_obj_num = file[q].body.Contents
        /\ \A r \in DataOf("Page") :
             r # q => file[r].body.Resources # file[q].body.Resources

\* C24: a finalize that adds a page writes exactly two objects, the resource
\* dictionary first and the content stream second, numbered consecutively
\* (content = resource + 1); and the page object the close writes for a page
\* has /Resources referring to the first and /Contents to the second, never
\* swapped and never those of another page.
C24_ResourcesThenContents ==
    [][/\ Len(pages') = Len(pages) + 1 =>
            /\ Len(object_offsets') = Len(object_offsets) + 2
            /\ \E r, c \in NewData :
                   /\ NewData = {r, c}
                   /\ r < c
                   /\ file'[r].full /\ file'[r].body.type = "Resources"
                   /\ file'[r].num = Len(object_offsets) + 1
                   /\ file'[c].full /\ file'[c].body.type = "Stream"
                   /\ file'[c].num = Len(object_offsets) + 2
            /\ pages'[Len(pages')] = [resource_obj_num |-> Len(object_offsets) + 1,
                                      commands_obj_num |-> Len(object_offsets) + 2]
       /\ PageObjectsReferToOwnPair']_vars

C24_TwoPageObjectsWritten ==
    /\ gen_state = "destroyed"
    /\ Cardinality(DataOf("Page")) = 2
    /\ image_info # <<>>
    /\ \E b \in Builders : page[b].finalize_calls = 1 /\ page[b].added = <<2>>

\* the subset fonts a token sequence selects with Tf
SubsetSelections(toks) ==
    {toks[i].res : i \in {j \in DOMAIN toks : toks[j].op = "Tf" /\ toks[j].res.t = "SFont"}}
\* the completely written resource dictionaries of the page builder b added
WrittenResources(b) ==
    {k \in DataOf("Resources") :
        \E i \in DOMAIN pages :
            page[b].added = <<i>> /\ file[k].num = pages[i].resource_obj_num}

\* C25: every "/SFont<f>-<s> ... Tf" selection in a page's content stream
\* names a member of the page's used-font-subset set, and the resource
\* dictionary written at finalize has the key /SFont<f>-<s> under /Font,
\* referring to the same font object f.
C25_SelectedSubsetsRegistered ==
    \A b \in Builders :
        /\ \A r \in SubsetSelections(page[b].commands) :
             \E ss \in page[b].used_subset_fonts :
                 /\ ss.subset_id = r.s
                 /\ ValidId(font_objects, ss.fid)
                 /\ font_objects[ss.fid + 1].font_obj = r.n
        /\ page[b].added # <<>> =>
             /\ WrittenResources(b) # {}
             /\ \A k \in WrittenResources(b) :
                  \A r \in SubsetSelections(page[b].delivered) :
                      \E i \in DOMAIN file[k].body.dict :
                          /\ file[k].body.dict[i].key = "Font"
                          /\ KeyRef(r, r.n) \in file[k].body.dict[i].sub

C25_TwoSubsetsDelivered ==
    \E b \in Builders :
        /\ page[b].added # <<>>
        /\ Cardinality(SubsetSelections(page[b].delivered)) = 2
        /\ WrittenResources(b) # {}

\* C26: a resource dictionary build_resource_dict produced never has the same
\* key twice at the top level: /ColorSpace, /XObject, /Font and /ExtGState
\* appear at most once each, whatever the output colour space and the
\* resources used.
C26_TopLevelKeysOnce ==
    \A k \in DataOf("Resources") :
        \A i, j \in DOMAIN file[k].body.dict :
            i # j => file[k].body.dict[i].key # file[k].body.dict[j].key

\* C27: finalize is all or nothing: a builder is marked finalized only if
\* its page record was added, and a resource dictionary object is in the
\* file only together with the content stream object that follows it, one
\* pair per page record.
C27_FinalizeAllOrNothing ==
    /\ \A b \in Builders : page[b].is_finalized => page[b].added # <<>>
    /\ \A k \in DataOf("Resources") :
         \E c \in DataOf("Stream") : file[c].num = file[k].num + 1
    /\ Cardinality(DataOf("Resources")) = Len(pages)

\* C28: load_mono_png packs a two-colour image of width w and height h into
\* exactly ((w + 7) / 8) * h bytes, every row padded to whole bytes, for
\* every w >= 1 and h >= 1, so that its assertion on the size never fails.
C28_PackedSize ==
    (log.png.state = "read" /\ ~log.png.image.failed) =>
        /\ log.png.err = "none"
        /\ Len(log.png.result.pixels)
             = ((log.png.image.width + 7) \div 8) * log.png.image.height

\* the completely written font objects of builtin font f
BuiltinFontObjects(f) == {k \in DataOf("Font") : file[k].body.builtin = f}
\* the same after the step
BuiltinFontObjectsAfter(f) == {k \in DataOf("Font")' : file'[k].body.builtin = f}

\* C29: get_builtin_font_id is idempotent: each builtin font is written as at
\* most one font object; the first call for a font writes exactly one object
\* and registers it; every later call for the same font returns the id of
\* the first call and writes nothing; and an id once given never changes.
C29_BuiltinFontWrittenOnce ==
    [][/\ \A f \in DOMAIN font_names :
            /\ Cardinality(BuiltinFontObjectsAfter(f - 1)) <= 1
            /\ f - 1 \in DOMAIN builtin_fonts' => Cardinality(BuiltinFontObjectsAfter(f - 1)) = 1
       /\ \A f \in DOMAIN builtin_fonts :
            f \in DOMAIN builtin_fonts' /\ builtin_fonts'[f] = builtin_fonts[f]
       /\ \A b \in Builders :
            (/\ log'.last = Call("render_ascii_text_builtin", b, "none")
             /\ page'[b].nops = page[b].nops + 1)
            => /\ log'.args.env \in DOMAIN builtin_fonts'
               /\ \E k \in BuiltinFontObjectsAfter(log'.args.env) :
                      \E i \in DOMAIN Appended(b) :
                          /\ Appended(b)[i].op = "Tf"
                          /\ Appended(b)[i].res = ResName("Font", file'[k].num, 0)
               /\ IF log'.args.env \in DOMAIN builtin_fonts
                  THEN /\ file' = file
                       /\ object_offsets' = object_offsets
                       /\ font_objects' = font_objects
                  ELSE /\ Len(object_offsets') = Len(object_offsets) + 1
                       /\ \E k \in NewData :
                              /\ NewData = {k}
                              /\ file'[k].body = [type |-> "Font", builtin |-> log'.args.env]
                              /\ file'[k].num = Len(object_offsets')]_vars

C29_FontsReusedAcrossPages ==
    /\ DOMAIN builtin_fonts = BuiltinFonts
    /\ \A b \in Builders : page[b].nops = MaxOps /\ Cardinality(page[b].used_fonts) = 2
    /\ Len(font_objects) > Cardinality(BuiltinFonts)
    /\ pages # <<>>

\* the largest power of two that is at most n
LargestPowerOfTwo(n) == CHOOSE p \in {2^k : k \in 0..14} : p <= n /\ n < 2 * p

\* C30: for every table count n >= 1, set_table_size(n) sets search_range to
\* 16 * p for the largest power of two p <= n, entry_selector to log2(p) and
\* range_shift to 16 * n - search_range, which is never negative.
C30_SearchFields ==
    log.tt.state = "set" =>
        /\ log.tt.offset.num_tables = log.tt.new_size
        /\ log.tt.offset.search_range = 16 * LargestPowerOfTwo(log.tt.new_size)
        /\ 2^log.tt.offset.entry_selector = LargestPowerOfTwo(log.tt.new_size)
        /\ log.tt.offset.range_shift
             = 16 * log.tt.new_size - log.tt.offset.search_range
        /\ log.tt.offset.range_shift >= 0

TypeOK ==
    /\ gen_state \in {"unborn", "ctor_failed", "alive", "destroyed"}
    /\ ofile \in {"null", "open", "closed"}
    /\ Len(pages) <= MaxBuilders

====
